---- MODULE Spec2Model ----
(***************************************************************************)
(* boston_logger: the sensitive-data masking engine (SensitivePaths), the  *)
(* mask registry, the SensitivePathContext stack and sanitize_data.        *)
(*                                                                         *)
(* Python values are modelled as tagged records:                           *)
(*   Str(s)   a str            Dict(f)  a dict, f a function key -> value  *)
(*   None     None             List(q)  a list, q a sequence of values     *)
(*   Ref(a)   the object at    Tuple(q) a tuple                            *)
(*            address a of the heap                                        *)
(* A dict, list or tuple written inside another value is an object only    *)
(* that value refers to; an object more than one reference leads to is a   *)
(* cell of a heap (address -> object) and Ref(a) stands where it is        *)
(* referred to.  A dict whose iteration order matters carries it as keys.  *)
(* A path pattern string is a sequence of tokens: "/" or a maximal run of  *)
(* non-slash characters (a segment name), so that str.strip("/") and       *)
(* str.split("/") are computed and not assumed.                            *)
(***************************************************************************)
EXTENDS Integers, Sequences, FiniteSets, TLC

VARIABLES
    config,             \* boston_logger.config.config (the flags read here)
    _mask_processors,   \* sensitive_paths._mask_processors: name -> root_paths
    _global_masks,      \* sensitive_paths._global_masks: set of names
    _mask_names,        \* SensitivePathContext._mask_names: list of sets
    input,              \* arguments of the pure function under check
    last,               \* observation of the most recent operation
    scopes,             \* the with-statements the caller is inside, innermost last
    logger_calls,       \* the calls made on the logger, oldest first
    now                 \* the clock datetime.now() reads, in ticks

vars == <<config, _mask_processors, _global_masks, _mask_names, input, last,
          scopes, logger_calls, now>>

----------------------------------------------------------------------------
(* Python values *)

Str(s) == [t |-> "str", s |-> s]
None == [t |-> "none"]
Dict(f) == [t |-> "dict", d |-> f]
List(q) == [t |-> "list", l |-> q]
Tuple(q) == [t |-> "tuple", l |-> q]

EmptyDict == [k \in {} |-> None]

isdict(v) == v.t = "dict"
islist(v) == v.t = "list"
istuple(v) == v.t = "tuple"

\* a reference to the object at address a of a heap
Ref(a) == [t |-> "ref", a |-> a]
isref(v) == v.t = "ref"

\* the object a value is or refers to
ObjectOf(heap, v) == IF isref(v) THEN heap[v.a] ELSE v

\* the object data names has become obj: the heap, and what the holder of
\* data holds
Mutated(heap, data, obj) ==
    IF isref(data)
    THEN [heap |-> [heap EXCEPT ![data.a] = obj], data |-> data]
    ELSE [heap |-> heap, data |-> obj]

\* dict.update(other) where other has no key that obj has not
update(obj, other) ==
    [obj EXCEPT !.d = [k \in DOMAIN obj.d |-> IF k \in DOMAIN other.d THEN other.d[k] ELSE obj.d[k]]]

\* a dict with the order its keys were inserted in
OrderedDict(order, f) == [t |-> "dict", d |-> f, keys |-> order]

\* the elements of a set one after the other
RECURSIVE AnyOrder(_)
AnyOrder(S) ==
    IF S = {} THEN <<>>
    ELSE LET x == CHOOSE x \in S : TRUE IN <<x>> \o AnyOrder(S \ {x})

\* the order a loop over a dict takes its keys in: the insertion order; a
\* dict written without it has no reference below it, and the order such a
\* dict is walked in has no effect
KeysOf(obj) ==
    IF "keys" \in DOMAIN obj THEN obj.keys ELSE AnyOrder(DOMAIN obj.d)

\* the value a reference-free reader sees: every reference replaced by the
\* object it leads to
RECURSIVE Unfold(_, _)
Unfold(heap, v) ==
    IF isref(v) THEN Unfold(heap, heap[v.a])
    ELSE IF isdict(v) THEN Dict([k \in DOMAIN v.d |-> Unfold(heap, v.d[k])])
    ELSE IF islist(v) \/ istuple(v)
    THEN [v EXCEPT !.l = [i \in DOMAIN v.l |-> Unfold(heap, v.l[i])]]
    ELSE v

\* sensitive_paths.MASK_STRING
MASK_STRING == "*** masked ***"

\* The compiled rule structure: a key maps to True or to a nested mapping.
True == [t |-> "True"]
Paths(f) == [t |-> "paths", c |-> f]
EmptyPaths == Paths([k \in {} |-> True])

\* dict item assignment d[k] = v on a function
SetItem(f, k, v) == [x \in DOMAIN f \cup {k} |-> IF x = k THEN v ELSE f[x]]

----------------------------------------------------------------------------
(* chain_mask *)

\* what chain_mask returns for a dict: a new dict
chain_mask_dict(obj) ==
    IF config.SHOW_NESTED_KEYS_IN_SENSITIVE_PATHS
    THEN [obj EXCEPT !.d = [k \in DOMAIN obj.d |-> Str(MASK_STRING)]]
    ELSE Dict(SetItem(EmptyDict, MASK_STRING, Str(MASK_STRING)))

\* chain_mask(data): a new value, the objects of data are left as they are
RECURSIVE chain_mask(_, _)
chain_mask(heap, data) ==
    IF ObjectOf(heap, data) = None THEN None
    ELSE IF isdict(ObjectOf(heap, data)) THEN chain_mask_dict(ObjectOf(heap, data))
    ELSE IF islist(ObjectOf(heap, data)) THEN
        List([i \in DOMAIN ObjectOf(heap, data).l |-> chain_mask(heap, ObjectOf(heap, data).l[i])])
    ELSE Str(MASK_STRING)

----------------------------------------------------------------------------
(* SensitivePaths.__init__ *)

\* str.strip("/") on a token sequence
RECURSIVE lstrip(_)
lstrip(path) ==
    IF path # <<>> /\ Head(path) = "/" THEN lstrip(Tail(path)) ELSE path

RECURSIVE rstrip(_)
rstrip(path) ==
    IF path # <<>> /\ path[Len(path)] = "/"
    THEN rstrip(SubSeq(path, 1, Len(path) - 1)) ELSE path

strip(path) == rstrip(lstrip(path))

\* str.split("/"): the pieces between the slashes, "" for an empty piece
RECURSIVE split(_)
split(path) ==
    IF path = <<>> THEN <<"">>
    ELSE IF Head(path) = "/" THEN <<"">> \o split(Tail(path))
    ELSE IF Len(path) = 1 THEN <<Head(path)>>
    ELSE \* a segment token is always followed by a slash token
         <<Head(path)>> \o split(Tail(Tail(path)))

RECURSIVE InsertKeys(_, _)

\* (mutation) an earlier, shorter path is not noticed: it is overwritten
InsertKeys_overwrite(current_dict, keys) ==
    LET k == Head(keys)
        rest == Tail(keys)
    IN  IF Len(rest) = 1 /\ rest[1] = "*"
        THEN SetItem(current_dict, k, True)
        ELSE IF Len(rest) = 0
        THEN SetItem(current_dict, k, True)
        ELSE LET sub == IF k \in DOMAIN current_dict /\ current_dict[k] # True
                        THEN current_dict[k] ELSE EmptyPaths
             IN  SetItem(current_dict, k, Paths(InsertKeys(sub.c, rest)))

\* One pass of the inner "while keys" loop over one path, from current_dict
InsertKeys(current_dict, keys) ==
    LET k == Head(keys)
        rest == Tail(keys)
    IN  IF Len(rest) = 1 /\ rest[1] = "*"
        THEN SetItem(current_dict, k, True)
        ELSE IF Len(rest) = 0
        THEN SetItem(current_dict, k, True)
        ELSE LET sub == IF k \in DOMAIN current_dict
                        THEN current_dict[k] ELSE EmptyPaths
             IN  IF sub = True
                 THEN current_dict
                 ELSE SetItem(current_dict, k, Paths(InsertKeys(sub.c, rest)))

\* The outer "for path in args" loop, root_paths after all of args
RECURSIVE InsertPaths(_, _)
InsertPaths(root, args) ==
    IF args = <<>> THEN root
    ELSE InsertPaths(InsertKeys(root, split(strip(Head(args)))), Tail(args))

\* SensitivePaths(args).root_paths
SensitivePaths(args) == Paths(InsertPaths(EmptyPaths.c, args))

----------------------------------------------------------------------------
(* SensitivePaths.process *)

\* The code changes the objects it is given, it builds no new structure: an
\* operator of the engine takes the heap and returns the heap after it with
\* what the holder of its data holds then, as [heap |-> , data |-> ].

\* the object data names has become done.data
Stored(data, done) == Mutated(done.heap, data, done.data)

\* the dict obj after the object under its key k was sanitized, giving sub
WithValue(obj, k, sub) == [heap |-> sub.heap, data |-> [obj EXCEPT !.d[k] = sub.data]]

\* the list or tuple obj after its item i was sanitized, giving sub
WithItem(obj, i, sub) == [heap |-> sub.heap, data |-> [obj EXCEPT !.l[i] = sub.data]]

RECURSIVE _sanitize_dict(_, _, _)
RECURSIVE _sanitize_any(_, _, _)

\* for v in data.values(): _sanitize_any(nested_paths, v), over the keys of
\* order, data being the dict done.data
RECURSIVE SanitizeValues(_, _, _)
SanitizeValues(nested_paths, done, order) ==
    IF order = <<>> THEN done
    ELSE SanitizeValues(
            nested_paths,
            WithValue(done.data, Head(order),
                      _sanitize_any(nested_paths, done.heap, done.data.d[Head(order)])),
            Tail(order))

\* (mutation) with show-nested-keys the values under "*" are chain-masked
WildcardStep_chain(paths, heap, obj) ==
    IF "*" \in DOMAIN paths.c THEN
        IF paths.c["*"] = True THEN
            IF config.SHOW_NESTED_KEYS_IN_SENSITIVE_PATHS
            THEN [heap |-> heap,
                  data |-> [obj EXCEPT !.d = [k \in DOMAIN obj.d |->
                                                chain_mask(heap, obj.d[k])]]]
            ELSE [heap |-> heap,
                  data |-> Dict(SetItem(EmptyDict, MASK_STRING, Str(MASK_STRING)))]
        ELSE SanitizeValues(paths.c["*"], [heap |-> heap, data |-> obj], KeysOf(obj))
    ELSE [heap |-> heap, data |-> obj]

\* the "*" branch of _sanitize_dict on the dict obj
WildcardStep(paths, heap, obj) ==
    IF "*" \in DOMAIN paths.c THEN
        IF paths.c["*"] = True THEN
            IF config.SHOW_NESTED_KEYS_IN_SENSITIVE_PATHS
            THEN \* data.update(chain_mask(data))
                 [heap |-> heap, data |-> update(obj, chain_mask(heap, obj))]
            ELSE \* data.clear(); data[MASK_STRING] = MASK_STRING
                 [heap |-> heap,
                  data |-> Dict(SetItem(EmptyDict, MASK_STRING, Str(MASK_STRING)))]
        ELSE SanitizeValues(paths.c["*"], [heap |-> heap, data |-> obj], KeysOf(obj))
    ELSE [heap |-> heap, data |-> obj]

\* one turn of the "for k, v in data.items()" loop of _sanitize_dict on the
\* dict obj
LiteralItem(paths, heap, obj, k) ==
    IF k \notin DOMAIN paths.c THEN [heap |-> heap, data |-> obj]
    ELSE IF paths.c[k] = True
    THEN \* data[k] = chain_mask(v)
         [heap |-> heap, data |-> [obj EXCEPT !.d[k] = chain_mask(heap, obj.d[k])]]
    ELSE WithValue(obj, k, _sanitize_any(paths.c[k], heap, obj.d[k]))

\* the "for k, v in data.items()" loop of _sanitize_dict, over the keys of
\* order, data being the dict done.data
RECURSIVE LiteralStep(_, _, _)
LiteralStep(paths, done, order) ==
    IF order = <<>> THEN done
    ELSE LiteralStep(paths, LiteralItem(paths, done.heap, done.data, Head(order)),
                     Tail(order))

\* the loop over the items of the dict the "*" branch left
LiteralItems(paths, done) == LiteralStep(paths, done, KeysOf(done.data))

_sanitize_dict(paths, heap, data) ==
    Stored(data, LiteralItems(paths, WildcardStep(paths, heap, ObjectOf(heap, data))))

\* for item in data: _sanitize_any(paths, item), from item i on, data being
\* the list or tuple done.data
RECURSIVE SanitizeItems(_, _, _)
SanitizeItems(paths, done, i) ==
    IF i > Len(done.data.l) THEN done
    ELSE SanitizeItems(
            paths,
            WithItem(done.data, i, _sanitize_any(paths, done.heap, done.data.l[i])),
            i + 1)

_sanitize_any(paths, heap, data) ==
    IF isdict(ObjectOf(heap, data)) THEN _sanitize_dict(paths, heap, data)
    ELSE IF islist(ObjectOf(heap, data)) \/ istuple(ObjectOf(heap, data))
    THEN Stored(data, SanitizeItems(paths, [heap |-> heap, data |-> ObjectOf(heap, data)], 1))
    ELSE [heap |-> heap, data |-> data]

\* (mutation) the switch is not consulted
process_unguarded(root_paths, heap, ref) ==
    _sanitize_dict(root_paths, heap, Ref(ref)).heap

\* SensitivePaths.process(data), data the object at ref: the heap after the
\* call
process(root_paths, heap, ref) ==
    IF config.ENABLE_SENSITIVE_PATHS_PROCESSOR
    THEN _sanitize_dict(root_paths, heap, Ref(ref)).heap
    ELSE heap

----------------------------------------------------------------------------
(* Inputs: patterns *)

\* "/".join(segs) as a token sequence
RECURSIVE Join(_)
Join(segs) ==
    IF Len(segs) <= 1 THEN segs
    ELSE <<Head(segs), "/">> \o Join(Tail(segs))

Range(q) == {q[i] : i \in DOMAIN q}

\* every ordering of a finite set, as sequences without repetition
Orderings(S) ==
    {q \in [1..Cardinality(S) -> S] : Range(q) = S}

SegSeqs(segs, n) == UNION {[1..m -> segs] : m \in 1..n}

\* the subsets of S with at most n elements
RECURSIVE SubsetsUpTo(_, _)
SubsetsUpTo(S, n) ==
    IF n = 0 THEN {{}}
    ELSE LET smaller == SubsetsUpTo(S, n - 1)
         IN  smaller \cup {T \cup {x} : T \in smaller, x \in S}

\* Bounds of the generated inputs
MaxPatLen == 3      \* segments per generated pattern given to process
MaxSegs == 3        \* segments per generated pattern given to the compiler
MaxArgs == 2        \* patterns per generated SensitivePaths(args)
MaxListLen == 1     \* elements per generated list

Keys == {"a", "b"}
Segs == Keys \cup {"*"}
CompileSegs == {"a", "*"}

\* tests/test_masking.py: TestPaths.setup, TestGlobal.setup, and "ALL"
TestPathsArgs ==
    << Join(<<"obj1", "key1">>), Join(<<"obj1", "key2">>),
       Join(<<"obj2", "*", "wild">>), Join(<<"obj2", "nested", "calm">>) >>
SimpleArgs == << Join(<<"obj1", "key1">>), <<"list1">> >>
AllArgs == << <<"*">> >>

\* tests/test_masking.py: test_root_paths
RootPathsArgs ==
    { << <<"/">> \o Join(<<"obj1", "key1">>), Join(<<"obj1", "key1">>),
         Join(<<"obj1", "key2">>) \o <<"/">> >>,
      << <<"/">> \o Join(<<"obj1", "*", "key1">>), Join(<<"obj1", "key2", "*">>) >>,
      << Join(<<"obj1", "nested", "key1">>), Join(<<"obj1", "nested">>) >>,
      << Join(<<"obj1", "nested", "key1", "deeper">>),
         Join(<<"obj1", "nested", "key1">>), Join(<<"obj1", "nested">>) >>,
      << Join(<<"obj1", "nested">>), Join(<<"obj1", "nested", "key1">>) >>,
      << Join(<<"obj1", "nested">>), Join(<<"obj1", "nested", "key1">>),
         Join(<<"obj1", "nested", "key1", "deeper">>) >> }

\* rule sets that combine a wildcard with literals over the generated keys
MixedArgs ==
    { << Join(<<"*", "a">>), Join(<<"b", "b">>) >>,
      << Join(<<"*", "a">>), Join(<<"a", "b">>) >>,
      << <<"*">>, Join(<<"a", "b">>) >>,
      << <<"a">>, Join(<<"b", "a">>) >>,
      << Join(<<"a", "*", "b">>), Join(<<"a", "a", "a">>) >>,
      << Join(<<"a", "*", "*">>), Join(<<"b", "a">>) >>,
      << Join(<<"a", "b">>), Join(<<"b", "b", "a">>) >> }

ProcessArgs ==
    {<<Join(q)>> : q \in SegSeqs(Segs, MaxPatLen)}
        \cup MixedArgs \cup {TestPathsArgs, SimpleArgs, AllArgs}

\* a pattern with patterns that extend it, over three depths
DepthSets ==
    { {<<"a">>, Join(<<"a", "b">>), Join(<<"a", "b", "a">>)},
      {Join(<<"a", "*">>), Join(<<"a", "b">>), Join(<<"a", "b", "*">>)},
      {<<"*">>, Join(<<"*", "a">>), Join(<<"*", "a", "b">>)},
      {Join(<<"a", "*", "b">>), Join(<<"a", "*">>), Join(<<"a", "b", "b">>)},
      {Join(<<"a", "*", "*">>), Join(<<"a", "*", "b">>), Join(<<"a", "b", "b">>)},
      {Join(<<"a", "b">>), Join(<<"a", "a">>), Join(<<"b", "a", "*">>),
       Join(<<"b", "a", "b">>)} }

CompileArgSets ==
    SubsetsUpTo({Join(q) : q \in SegSeqs(CompileSegs, MaxSegs)}, MaxArgs)
        \cup {Range(a) : a \in RootPathsArgs} \cup DepthSets

----------------------------------------------------------------------------
(* Inputs: data *)

DictsOver(V) == UNION {[K -> V] : K \in SUBSET Keys}
ListsOver(V) == UNION {[1..n -> V] : n \in 0..MaxListLen}
Nest(V) == V \cup {Dict(f) : f \in DictsOver(V)} \cup {List(q) : q \in ListsOver(V)}

Val0 == {Str("s")}
Val1 == Nest(Val0)
Val2 == Nest(Val1)

\* generated dicts: one key over values three levels deep, any keys over two
GenDocs ==
    {Dict(SetItem(EmptyDict, k, v)) : k \in Keys, v \in Val2}
        \cup {Dict(f) : f \in DictsOver(Val1)}

Obj3(k1, k2, k3) ==
    Dict([key1 |-> Str(k1), key2 |-> Str(k2), key3 |-> Str(k3)])
Wild(s) == Dict([wild |-> Str(s)])

\* tests/test_masking.py: TestPaths.test_data inputs
TestPathsDocs ==
    { Dict([obj2 |-> Str("shown"), obj1 |-> Obj3("secret", "hidden", "shown")]),
      Dict([obj1 |-> Dict([key1 |-> List(<<Str("x"), Str("y"), Str("z")>>)])]),
      Dict([obj1 |-> List(<<Obj3("secret", "hidden", "shown"),
                            Obj3("secret", "hidden", "shown")>>)]),
      Dict([obj2 |-> Str("shown"),
            obj1 |-> List(<<Obj3("secret", "hidden", "shown"),
                            List(<<Obj3("secret", "hidden", "shown")>>)>>)]),
      Dict([obj2 |-> Dict([key1 |-> Wild("hidden"), key2 |-> Wild("hidden"),
                           key3 |-> Dict([nested |-> Wild("shown")])])]),
      Dict([obj2 |-> List(<<Dict([key1 |-> Wild("hidden")]),
                            Dict([key2 |-> Wild("hidden")]),
                            Dict([key3 |-> Dict([nested |-> Wild("shown")])])>>)]),
      Dict([obj2 |-> Dict([key1 |-> Wild("hidden"),
                           nested |-> Dict([calm |-> Str("hidden")])])]) }

\* tests/test_masking.py: TestAll.test_data and TestGlobal.test_data inputs
TestAllDocs ==
    { Dict([obj2 |-> Str("shown"), obj1 |-> Obj3("secret", "hidden", "shown")]),
      Dict([obj2 |-> Str("shown"),
            list1 |-> List(<<Str("secret"), Str("hidden"), Str("shown")>>)]) }
TestGlobalDocs ==
    { Dict([obj2 |-> Str("shown"),
            obj1 |-> Dict([key1 |-> Str("secret"), key3 |-> Str("shown")])]),
      Dict([obj2 |-> Str("shown"),
            obj1 |-> Dict([key1 |-> Dict([maybe_show |-> Str("secret")]),
                           key3 |-> Str("shown")])]),
      Dict([obj2 |-> Str("shown"),
            list1 |-> List(<<Str("secret"), Str("hidden"), Str("shown")>>)]) }

\* values the generator leaves out: None, tuples, the empty dict, deep chains
EdgeDocs ==
    { Dict([a |-> None, b |-> Dict([a |-> None])]),
      Dict([a |-> List(<<None, Str("s"), Dict([a |-> None])>>)]),
      Dict([a |-> Tuple(<<Dict([a |-> Str("s")]), Str("s")>>), b |-> Str("s")]),
      Dict([a |-> Dict([a |-> Tuple(<<Str("s")>>)])]),
      Dict(EmptyDict),
      Dict([a |-> Dict([b |-> Dict([a |-> Dict([b |-> Str("s")])])])]),
      Dict([a |-> Dict([a |-> Dict([b |-> Str("s"), a |-> Str("s")])]),
            b |-> Dict([a |-> Dict([b |-> Str("s")])])]),
      Dict([a |-> List(<<List(<<Dict([b |-> Dict([a |-> Str("s")])])>>)>>)]) }

\* the wildcard cases of TestPaths.test_data in one dict
WildcardDoc ==
    Dict([obj2 |-> Dict([key1 |-> Wild("hidden"),
                         key3 |-> Dict([nested |-> Wild("shown")]),
                         nested |-> Dict([calm |-> Str("hidden"),
                                          wild |-> Str("hidden")])])])

Docs ==
    GenDocs \cup TestPathsDocs \cup TestAllDocs \cup TestGlobalDocs \cup EdgeDocs
        \cup {WildcardDoc}

\* data in which a reference leads to an object another reference leads to
\* as well: a heap each, the dict given to process at address 1
SharedGraphs ==
    { \* one dict under two keys
      << OrderedDict(<<"a", "b">>, [a |-> Ref(2), b |-> Ref(2)]),
         OrderedDict(<<"b">>, [b |-> Str("s")]) >>,
      \* the same dict twice in a list
      << OrderedDict(<<"a">>, [a |-> List(<<Ref(2), Ref(2)>>)]),
         OrderedDict(<<"a", "b">>,
                     [a |-> Str("s"), b |-> OrderedDict(<<"a">>, [a |-> Str("s")])]) >>,
      \* a dict under a key and inside another dict that is shared
      << OrderedDict(<<"a", "b">>, [a |-> Ref(2), b |-> Ref(3)]),
         OrderedDict(<<"b">>, [b |-> Ref(3)]),
         OrderedDict(<<"b">>, [b |-> Str("s")]) >>,
      \* a dict under a key and in a list, the key a inserted before b
      << OrderedDict(<<"a", "b">>, [a |-> Ref(2), b |-> List(<<Ref(2), Ref(3)>>)]),
         OrderedDict(<<"b">>, [b |-> Ref(3)]),
         OrderedDict(<<"a">>, [a |-> Str("s")]) >>,
      \* the same, the key b inserted before a
      << OrderedDict(<<"b", "a">>, [a |-> Ref(2), b |-> List(<<Ref(2), Ref(3)>>)]),
         OrderedDict(<<"b">>, [b |-> Ref(3)]),
         OrderedDict(<<"a">>, [a |-> Str("s")]) >>,
      \* a dict in a tuple and in a list
      << OrderedDict(<<"a", "b">>,
                     [a |-> Tuple(<<Ref(2), Str("s")>>), b |-> List(<<Ref(2)>>)]),
         OrderedDict(<<"a", "b">>, [a |-> Str("s"), b |-> Str("s")]) >>,
      \* a list under two keys
      << OrderedDict(<<"a", "b">>, [a |-> Ref(2), b |-> Ref(2)]),
         List(<<Str("s"), OrderedDict(<<"a">>, [a |-> Str("s")])>>) >>,
      \* a dict under a key and two levels down, with None in it
      << OrderedDict(<<"a", "b">>,
                     [a |-> OrderedDict(<<"a">>, [a |-> Ref(2)]), b |-> Ref(2)]),
         OrderedDict(<<"a", "b">>,
                     [a |-> None, b |-> OrderedDict(<<"a">>, [a |-> Str("s")])]) >> }

\* the heaps that hold the data given to process, the dict at address 1
DocHeaps == {SetItem(<<>>, 1, D) : D \in Docs} \cup SharedGraphs

----------------------------------------------------------------------------
(* One call at a time: "last" holds what the finished call did until the    *)
(* caller goes on; the program state is not touched by going on.            *)

Ready == last.op \in {"import", "idle"}

Continue ==
    /\ ~Ready
    /\ input.fn = "none"
    /\ last' = [op |-> "idle"]
    /\ UNCHANGED <<config, _mask_processors, _global_masks, _mask_names, input, scopes, logger_calls, now>>

----------------------------------------------------------------------------
(* config *)

\* config._defaults, the settings the program reads
_defaults ==
    [ ENABLE_OUTBOUND_REQUEST_LOGGING |-> TRUE,
      ENABLE_LOGGING_MIDDLEWARE |-> TRUE,
      ENABLE_SENSITIVE_PATHS_PROCESSOR |-> FALSE,
      LOG_RESPONSE_CONTENT |-> FALSE,
      MAX_JSON_DATA_TO_LOG |-> 0,
      MIDDLEWARE_BLOCKLIST |-> <<"admin:index", "swagger-docs">>,
      PREFER_TEXT_FALLBACK_MASKING |-> FALSE,
      SHOW_NESTED_KEYS_IN_SENSITIVE_PATHS |-> FALSE ]

\* the flags SensitivePaths.process and chain_mask read
Flags == {"ENABLE_SENSITIVE_PATHS_PROCESSOR", "SHOW_NESTED_KEYS_IN_SENSITIVE_PATHS"}

\* BlSettings.reconfigure / a patched setting: one flag takes a new value
Reconfigure ==
    \E flag \in Flags, value \in BOOLEAN :
        /\ Ready
        /\ config[flag] # value
        /\ config' = [config EXCEPT ![flag] = value]
        /\ last' = [op |-> "reconfigure", flag |-> flag]
        /\ UNCHANGED <<_mask_processors, _global_masks, _mask_names, input, scopes, logger_calls, now>>

----------------------------------------------------------------------------
(* The mask registry *)

Names == {"ALL", "Pat1", "Pat2"}

\* the registry as one value: _mask_processors and _global_masks
Registry(processors, globals) == [processors |-> processors, globals |-> globals]
EmptyRegistry == Registry([k \in {} |-> EmptyPaths], {})

\* (mutation) every registered name is made global
add_mask_processor_global(reg, mask_name, processor, is_global) ==
    Registry(SetItem(reg.processors, mask_name, processor),
             reg.globals \cup {mask_name})

\* (mutation) registering with is_global False takes the name out of the
\* global set
add_mask_processor_reset(reg, mask_name, processor, is_global) ==
    Registry(SetItem(reg.processors, mask_name, processor),
             IF is_global THEN reg.globals \cup {mask_name}
             ELSE reg.globals \ {mask_name})

add_mask_processor(reg, mask_name, processor, is_global) ==
    Registry(SetItem(reg.processors, mask_name, processor),
             IF is_global THEN reg.globals \cup {mask_name} ELSE reg.globals)

\* dict.pop(key, None): no error when the key is absent
dict_pop(d, key) == [k \in DOMAIN d \ {key} |-> d[k]]

\* set.remove(x): KeyError when x is not a member
set_remove(s, x) ==
    IF x \in s THEN [set |-> s \ {x}, raised |-> ""]
    ELSE [set |-> s, raised |-> "KeyError"]

\* (mutation) the KeyError of _global_masks.remove is not caught
remove_mask_processor_no_except(reg, mask_name) ==
    LET removed == set_remove(reg.globals, mask_name)
    IN  [processors |-> dict_pop(reg.processors, mask_name),
         globals |-> removed.set, raised |-> removed.raised]

\* (mutation) the name is popped from the registry and left in the global set
remove_mask_processor_keep_global(reg, mask_name) ==
    [processors |-> dict_pop(reg.processors, mask_name),
     globals |-> reg.globals, raised |-> ""]

\* remove_mask_processor: pop, then remove inside try / except KeyError: pass
remove_mask_processor(reg, mask_name) ==
    LET removed == set_remove(reg.globals, mask_name)
    IN  [processors |-> dict_pop(reg.processors, mask_name),
         globals |-> removed.set,
         raised |-> IF removed.raised = "KeyError" THEN "" ELSE removed.raised]

\* module import: add_mask_processor("ALL", SensitivePaths("*"))
ImportRegistry ==
    add_mask_processor(EmptyRegistry, "ALL", SensitivePaths(AllArgs), FALSE)

\* the (name, SensitivePaths args) pairs callers register
Registrations ==
    { <<"ALL", AllArgs>>, <<"Pat1", SimpleArgs>>,
      <<"Pat1", TestPathsArgs>>, <<"Pat2", TestPathsArgs>> }

AddMaskProcessor ==
    \E r \in Registrations, is_global \in BOOLEAN :
        LET reg == add_mask_processor(Registry(_mask_processors, _global_masks),
                                      r[1], SensitivePaths(r[2]), is_global)
        IN  /\ Ready
            /\ _mask_processors' = reg.processors
            /\ _global_masks' = reg.globals
            /\ last' = [op |-> "add_mask_processor", mask_name |-> r[1],
                        processor |-> SensitivePaths(r[2]), is_global |-> is_global]
            /\ UNCHANGED <<config, _mask_names, input, scopes, logger_calls, now>>

RemoveMaskProcessor ==
    \E mask_name \in Names \cup {"N/A"} :
        LET reg == remove_mask_processor(Registry(_mask_processors, _global_masks),
                                         mask_name)
        IN  /\ Ready
            /\ _mask_processors' = reg.processors
            /\ _global_masks' = reg.globals
            /\ last' = [op |-> "remove_mask_processor", mask_name |-> mask_name,
                        outcome |-> IF reg.raised = "" THEN "return" ELSE reg.raised]
            /\ UNCHANGED <<config, _mask_names, input, scopes, logger_calls, now>>

----------------------------------------------------------------------------
(* SensitivePathContext *)

MaxDepth == 2       \* nested scopes open at once

\* what callers pass as paths: a single name (a str) or a collection of names
ScopeArgs == { Str("Pat1"), Str("Pat2"), Tuple(<<"ALL", "Pat1">>) }

\* SensitivePathContext.__init__: the frame appended for paths
Frame(paths) == IF paths.t = "str" THEN {paths.s} ELSE Range(paths.l)

\* SensitivePathContext.__init__: _mask_names.append(set(paths))
__init__(stack, paths) == Append(stack, Frame(paths))

\* (mutation) the oldest frame is popped instead of the newest
__exit___first(stack, exc_type) ==
    [stack |-> Tail(stack), ret |-> None]

\* (mutation) the frame is popped only when the body did not raise, and the
\* error is swallowed
__exit___swallow(stack, exc_type) ==
    IF exc_type = "" THEN [stack |-> SubSeq(stack, 1, Len(stack) - 1), ret |-> None]
    ELSE [stack |-> stack, ret |-> True]

\* SensitivePathContext.__exit__: _mask_names.pop(-1); falls off the end, so
\* the with-statement gets None back
__exit__(stack, exc_type) ==
    [stack |-> SubSeq(stack, 1, Len(stack) - 1), ret |-> None]

\* SensitivePathContext.get_mask_names
get_mask_names == UNION Range(_mask_names)

\* the with-statement: an error raised in the body is suppressed only when
\* __exit__ returns a true value
Raised(exc_type, ret) == IF exc_type # "" /\ ret # True THEN exc_type ELSE ""

\* how the body of a scope ends: normally ("") or by raising
BodyOutcomes == {"", "ValueError"}

\* with SensitivePathContext(paths): the scope is entered
EnterContext ==
    \E paths \in ScopeArgs :
        /\ Ready
        /\ Len(scopes) < MaxDepth
        /\ _mask_names' = __init__(_mask_names, paths)
        /\ scopes' = Append(scopes, [cls |-> "SensitivePathContext",
                                     paths |-> paths,
                                     stack_before |-> _mask_names])
        /\ last' = [op |-> "SensitivePathContext", paths |-> paths]
        /\ UNCHANGED <<config, _mask_processors, _global_masks, input,
                       logger_calls, now>>

\* the body of the innermost scope ends and the with-statement calls __exit__
ExitContext ==
    \E exc_type \in BodyOutcomes :
        LET left == __exit__(_mask_names, exc_type)
        IN  /\ Ready
            /\ scopes # <<>>
            /\ scopes[Len(scopes)].cls = "SensitivePathContext"
            /\ _mask_names # <<>>
            /\ _mask_names' = left.stack
            /\ scopes' = SubSeq(scopes, 1, Len(scopes) - 1)
            /\ last' = [op |-> "__exit__", paths |-> scopes[Len(scopes)].paths,
                        exc_type |-> exc_type,
                        raised |-> Raised(exc_type, left.ret)]
            /\ UNCHANGED <<config, _mask_processors, _global_masks, input,
                           logger_calls, now>>

----------------------------------------------------------------------------
(* sanitize_data *)

\* The caller's object and the returned one are cells of one heap, so that
\* they are told apart.
CallerRef == 1

\* the heap a caller holds one dict in that no other reference leads into
Alone(data) == SetItem(<<>>, CallerRef, data)

\* the addresses a value refers to
RECURSIVE RefsIn(_)
RefsIn(v) ==
    IF isref(v) THEN {v.a}
    ELSE IF isdict(v) THEN UNION {RefsIn(v.d[k]) : k \in DOMAIN v.d}
    ELSE IF islist(v) \/ istuple(v) THEN UNION {RefsIn(v.l[i]) : i \in DOMAIN v.l}
    ELSE {}

\* the addresses of the objects that references lead to from those of refs
RECURSIVE Reachable(_, _)
Reachable(heap, refs) ==
    IF UNION {RefsIn(heap[a]) : a \in refs} \subseteq refs THEN refs
    ELSE Reachable(heap, refs \cup UNION {RefsIn(heap[a]) : a \in refs})

\* a value with every reference moved by offset addresses
RECURSIVE Moved(_, _)
Moved(v, offset) ==
    IF isref(v) THEN Ref(v.a + offset)
    ELSE IF isdict(v) THEN [v EXCEPT !.d = [k \in DOMAIN v.d |-> Moved(v.d[k], offset)]]
    ELSE IF islist(v) \/ istuple(v)
    THEN [v EXCEPT !.l = [i \in DOMAIN v.l |-> Moved(v.l[i], offset)]]
    ELSE v

\* the highest address in use
Top(heap) == CHOOSE a \in DOMAIN heap : \A other \in DOMAIN heap : other <= a

\* (mutation) no copy: the caller's own object is handed to the processors
deepcopy_alias(heap, ref) == [heap |-> heap, ref |-> ref]

\* copy.deepcopy: a new object for every object reachable from the one at
\* ref, with equal values; objects that were shared are shared in the copy
deepcopy(heap, ref) ==
    [ heap |-> [a \in DOMAIN heap \cup {r + Top(heap) : r \in Reachable(heap, {ref})} |->
                  IF a \in DOMAIN heap THEN heap[a]
                  ELSE Moved(heap[a - Top(heap)], Top(heap))],
      ref |-> ref + Top(heap) ]

\* (mutation) the global names are left out
mask_names_no_global(explicit) == explicit \cup get_mask_names

\* mask_names = set(mask_names) | context_mask_names | _global_masks
mask_names(explicit) == explicit \cup get_mask_names \cup _global_masks

\* (mutation) a name that is not registered is skipped
RECURSIVE ApplyMasks_skip(_, _, _, _)
ApplyMasks_skip(heap, ref, order, applied) ==
    IF order = <<>> THEN [heap |-> heap, raised |-> "", applied |-> applied]
    ELSE IF Head(order) \notin DOMAIN _mask_processors
    THEN ApplyMasks_skip(heap, ref, Tail(order), applied)
    ELSE ApplyMasks_skip(
            process(_mask_processors[Head(order)], heap, ref),
            ref, Tail(order), applied \cup {Head(order)})

\* for mask_name in mask_names: _mask_processors[mask_name].process(masked_data)
\* order is the iteration order of the set; the lookup of an unregistered
\* name raises KeyError and ends the loop
RECURSIVE ApplyMasks(_, _, _, _)
ApplyMasks(heap, ref, order, applied) ==
    IF order = <<>> THEN [heap |-> heap, raised |-> "", applied |-> applied]
    ELSE IF Head(order) \notin DOMAIN _mask_processors
    THEN [heap |-> heap, raised |-> "KeyError", applied |-> applied]
    ELSE ApplyMasks(
            process(_mask_processors[Head(order)], heap, ref),
            ref, Tail(order), applied \cup {Head(order)})

\* return masked_data: done is how the loop over mask_names ended
ReturnCopy(masked_data, done) ==
    [heap |-> done.heap, raised |-> done.raised, applied |-> done.applied,
     ret |-> masked_data.ref]

\* the loop of sanitize_data over mask_names, on the copy
MaskCopy(masked_data, order) ==
    ReturnCopy(masked_data, ApplyMasks(masked_data.heap, masked_data.ref, order, {}))

sanitize_data(heap, data, order) == MaskCopy(deepcopy(heap, data), order)

\* the dicts callers pass in the registry and context scenarios
CallDocs ==
    { Dict([obj2 |-> Str("shown"),
            obj1 |-> Dict([key1 |-> Dict([maybe_show |-> Str("secret")]),
                           key3 |-> Str("shown")])]),
      Dict([obj2 |-> Dict([key1 |-> Wild("hidden"),
                           nested |-> Dict([calm |-> Str("hidden")])]),
            list1 |-> List(<<Str("secret"), Str("shown")>>)]) }

\* a caller's dict in which the dict of a billing address is the shipping
\* address too
SharedCallHeap ==
    << OrderedDict(<<"obj1", "obj2">>, [obj1 |-> Ref(2), obj2 |-> Ref(2)]),
       OrderedDict(<<"key1", "key3">>, [key1 |-> Str("secret"), key3 |-> Str("shown")]) >>

\* what callers pass: the heaps that hold the dicts, with the caller's dict
\* at CallerRef
CallHeaps == {Alone(D) : D \in CallDocs} \cup {SharedCallHeap}

\* the positional mask_names callers pass
CallNames == SUBSET Names

SanitizeData ==
    /\ Ready
    /\ \E h \in CallHeaps, explicit \in CallNames :
        \E order \in Orderings(mask_names(explicit)) :
            \E r \in {sanitize_data(h, CallerRef, order)} :
                /\ last' =
                     IF r.raised = ""
                     THEN [op |-> "sanitize_data", outcome |-> "return",
                           heap |-> h, heap_after |-> r.heap,
                           data |-> Unfold(h, Ref(CallerRef)), mask_names |-> explicit,
                           applied |-> r.applied,
                           data_after |-> Unfold(r.heap, Ref(CallerRef)),
                           ret_ref |-> r.ret, ret |-> Unfold(r.heap, Ref(r.ret))]
                     ELSE [op |-> "sanitize_data", outcome |-> r.raised,
                           heap |-> h, heap_after |-> r.heap,
                           data |-> Unfold(h, Ref(CallerRef)), mask_names |-> explicit,
                           applied |-> r.applied,
                           data_after |-> Unfold(r.heap, Ref(CallerRef))]
                /\ UNCHANGED <<config, _mask_processors, _global_masks,
                               _mask_names, input, scopes, logger_calls, now>>

----------------------------------------------------------------------------
(* Characters, code points and encodings                                    *)
(*                                                                          *)
(* A str is written as a string, character by character, the way a Python   *)
(* literal writes it.  A printable ASCII character, a tab, a line feed, a   *)
(* form feed and a carriage return are written as themselves; a backslash   *)
(* is written as two backslashes; every other character is written by its   *)
(* code point in lower-case hex: \xnn below U+0100 (the other control       *)
(* characters, the grave accent, U+007F to U+00FF), \uxxxx up to U+FFFF (a  *)
(* lone surrogate included) and \Uxxxxxxxx above it.  The bytes of a bytes  *)
(* object are written in the same way.                                      *)

\* s[i - 1], or "" past the end
Char(s, i) == IF i \in 1..Len(s) THEN SubSeq(s, i, i) ELSE ""

\* s[i - 1:j], the characters i to j that s has
substr(s, i, j) == SubSeq(s, i, IF j > Len(s) THEN Len(s) ELSE j)

\* "".join(q)
RECURSIVE Characters(_)
Characters(q) == IF q = <<>> THEN "" ELSE Head(q) \o Characters(Tail(q))

DecimalDigits == {"0", "1", "2", "3", "4", "5", "6", "7", "8", "9"}
DigitValue(c) ==
    CHOOSE n \in 0..9 : <<"0", "1", "2", "3", "4", "5", "6", "7", "8", "9">>[n + 1] = c
HexDigits == DecimalDigits \cup {"a", "b", "c", "d", "e", "f", "A", "B", "C", "D", "E", "F"}

\* the first position from i on whose character is not among these
SkipWhile(s, i, among) ==
    CHOOSE j \in i..(Len(s) + 1) :
        /\ Char(s, j) \notin among
        /\ \A k \in i..(j - 1) : Char(s, k) \in among

\* how the characters U+0000 to U+007F are written, in order
ASCII ==
    <<"\\x00", "\\x01", "\\x02", "\\x03", "\\x04", "\\x05", "\\x06", "\\x07",
      "\\x08", "\t", "\n", "\\x0b", "\f", "\r", "\\x0e", "\\x0f",
      "\\x10", "\\x11", "\\x12", "\\x13", "\\x14", "\\x15", "\\x16", "\\x17",
      "\\x18", "\\x19", "\\x1a", "\\x1b", "\\x1c", "\\x1d", "\\x1e", "\\x1f",
      " ", "!", "\"", "#", "$", "%", "&", "'",
      "(", ")", "*", "+", ",", "-", ".", "/",
      "0", "1", "2", "3", "4", "5", "6", "7",
      "8", "9", ":", ";", "<", "=", ">", "?",
      "@", "A", "B", "C", "D", "E", "F", "G",
      "H", "I", "J", "K", "L", "M", "N", "O",
      "P", "Q", "R", "S", "T", "U", "V", "W",
      "X", "Y", "Z", "[", "\\\\", "]", "^", "_",
      "\\x60", "a", "b", "c", "d", "e", "f", "g",
      "h", "i", "j", "k", "l", "m", "n", "o",
      "p", "q", "r", "s", "t", "u", "v", "w",
      "x", "y", "z", "{", "|", "}", "~", "\\x7f">>

\* chr(n) as it is written, and ord(c) of a character written as itself
chr_hex(n, width) ==
    [i \in 1..width |->
        <<"0", "1", "2", "3", "4", "5", "6", "7", "8", "9", "a", "b", "c", "d", "e", "f">>
            [((n \div (16 ^ (width - i))) % 16) + 1]]
chr(n) ==
    IF n < 128 THEN ASCII[n + 1]
    ELSE IF n < 256 THEN "\\x" \o Characters(chr_hex(n, 2))
    ELSE IF n < 65536 THEN "\\u" \o Characters(chr_hex(n, 4))
    ELSE "\\U" \o Characters(chr_hex(n, 8))
Ord == [c \in {ASCII[n] : n \in 1..128} |-> CHOOSE n \in 0..127 : ASCII[n + 1] = c]
ord(c) == Ord[c]

\* int(digits, 16)
HexValue(c) ==
    CHOOSE n \in 0..15 :
        \/ <<"0", "1", "2", "3", "4", "5", "6", "7", "8", "9", "a", "b", "c", "d", "e", "f">>[n + 1] = c
        \/ <<"0", "1", "2", "3", "4", "5", "6", "7", "8", "9", "A", "B", "C", "D", "E", "F">>[n + 1] = c
RECURSIVE int16(_)
int16(digits) ==
    IF digits = "" THEN 0
    ELSE 16 * int16(SubSeq(digits, 1, Len(digits) - 1))
            + HexValue(Char(digits, Len(digits)))

\* the number of characters the character (or byte) at i is written with,
\* the character as it is written, and its code point (or value)
Written(s, i) ==
    IF Char(s, i) # "\\" THEN 1
    ELSE IF Char(s, i + 1) = "u" THEN 6
    ELSE IF Char(s, i + 1) = "U" THEN 10
    ELSE IF Char(s, i + 1) = "x" THEN 4
    ELSE 2
Character(s, i) == IF i > Len(s) THEN "" ELSE substr(s, i, i + Written(s, i) - 1)
CodePointAt(s, i) ==
    IF Char(s, i) # "\\" THEN ord(Char(s, i))
    ELSE IF Char(s, i + 1) \in {"u", "U", "x"}
    THEN int16(SubSeq(s, i + 2, i + Written(s, i) - 1))
    ELSE 92

\* the characters of a str from i on, each as it is written, and their code
\* points; the values of bytes likewise
RECURSIVE CharsFrom(_, _)
CharsFrom(s, i) ==
    IF i > Len(s) THEN <<>>
    ELSE <<SubSeq(s, i, i + Written(s, i) - 1)>> \o CharsFrom(s, i + Written(s, i))
RECURSIVE CodePointsFrom(_, _)
CodePointsFrom(s, i) ==
    IF i > Len(s) THEN <<>>
    ELSE <<CodePointAt(s, i)>> \o CodePointsFrom(s, i + Written(s, i))
CodePoints(s) == CodePointsFrom(s, 1)

\* the str of these code points
RECURSIVE StrOfCodes(_)
StrOfCodes(codes) ==
    IF codes = <<>> THEN "" ELSE chr(Head(codes)) \o StrOfCodes(Tail(codes))

IsHighSurrogate(n) == n >= 55296 /\ n <= 56319
IsLowSurrogate(n) == n >= 56320 /\ n <= 57343
IsSurrogate(n) == n >= 55296 /\ n <= 57343
JoinSurrogates(high, low) == 65536 + (high - 55296) * 1024 + (low - 56320)

\* str.encode("utf-8") of one character that is not a surrogate
utf_8_encode(n) ==
    IF n < 128 THEN <<n>>
    ELSE IF n < 2048 THEN <<192 + (n \div 64), 128 + (n % 64)>>
    ELSE IF n < 65536
    THEN <<224 + (n \div 4096), 128 + ((n \div 64) % 64), 128 + (n % 64)>>
    ELSE <<240 + (n \div 262144), 128 + ((n \div 4096) % 64),
           128 + ((n \div 64) % 64), 128 + (n % 64)>>

\* The UTF-8 decoder.  The unit at i is a byte; surrogatepass says whether the
\* three bytes of a surrogate are accepted.
Unit(units, i) == IF i \in 1..Len(units) THEN units[i] ELSE -1

\* the continuation bytes a first byte asks for (0: none, or no first byte),
\* and the values its second byte may take
Continuations(b) ==
    IF b >= 194 /\ b <= 223 THEN 1
    ELSE IF b >= 224 /\ b <= 239 THEN 2
    ELSE IF b >= 240 /\ b <= 244 THEN 3
    ELSE 0
SecondFrom(b) == IF b = 224 THEN 160 ELSE IF b = 240 THEN 144 ELSE 128
SecondTo(b, surrogatepass) ==
    IF b = 237 /\ ~surrogatepass THEN 159 ELSE IF b = 244 THEN 143 ELSE 191
IsContinuation(b) == b >= 128 /\ b <= 191

\* the continuation bytes that follow the byte at i as they should
Followed(units, i, surrogatepass) ==
    IF \/ Continuations(units[i]) = 0
       \/ Unit(units, i + 1) < SecondFrom(units[i])
       \/ Unit(units, i + 1) > SecondTo(units[i], surrogatepass)
    THEN 0
    ELSE IF Continuations(units[i]) = 1 \/ ~IsContinuation(Unit(units, i + 2)) THEN 1
    ELSE IF Continuations(units[i]) = 2 \/ ~IsContinuation(Unit(units, i + 3)) THEN 2
    ELSE 3

\* the bytes from i on encode a character
WellFormed(units, i, surrogatepass) ==
    \/ units[i] < 128
    \/ /\ Continuations(units[i]) > 0
       /\ Followed(units, i, surrogatepass) = Continuations(units[i])

\* the character they encode
Scalar(units, i) ==
    IF units[i] < 128 THEN units[i]
    ELSE IF Continuations(units[i]) = 1
    THEN (units[i] - 192) * 64 + (units[i + 1] - 128)
    ELSE IF Continuations(units[i]) = 2
    THEN (units[i] - 224) * 4096 + (units[i + 1] - 128) * 64 + (units[i + 2] - 128)
    ELSE (units[i] - 240) * 262144 + (units[i + 1] - 128) * 4096
            + (units[i + 2] - 128) * 64 + (units[i + 3] - 128)

\* bytes.decode("utf-8", "replace") from i on: the code points, U+FFFD for
\* each first byte that is none and each sequence that breaks off
RECURSIVE utf_8_decode(_, _, _)
utf_8_decode(units, i, surrogatepass) ==
    IF i > Len(units) THEN <<>>
    ELSE << IF WellFormed(units, i, surrogatepass) THEN Scalar(units, i) ELSE 65533 >>
             \o utf_8_decode(units, i + 1 + Followed(units, i, surrogatepass),
                             surrogatepass)

\* a strict decoder accepts the bytes from i on
RECURSIVE utf_8_valid(_, _, _)
utf_8_valid(units, i, surrogatepass) ==
    \/ i > Len(units)
    \/ /\ WellFormed(units, i, surrogatepass)
       /\ utf_8_valid(units, i + 1 + Followed(units, i, surrogatepass), surrogatepass)

\* The UTF-16 and UTF-32 decoders with errors="surrogatepass": le is the byte
\* order.  Bytes that break off are an error, a lone surrogate is kept.
Unit16(units, i, le) ==
    IF i + 1 > Len(units) THEN -1
    ELSE IF le THEN units[i] + 256 * units[i + 1]
    ELSE 256 * units[i] + units[i + 1]
IsPair(units, i, le) ==
    IsHighSurrogate(Unit16(units, i, le)) /\ IsLowSurrogate(Unit16(units, i + 2, le))
RECURSIVE utf_16_decode(_, _, _)
utf_16_decode(units, i, le) ==
    IF i > Len(units) THEN <<>>
    ELSE IF IsPair(units, i, le)
    THEN <<JoinSurrogates(Unit16(units, i, le), Unit16(units, i + 2, le))>>
             \o utf_16_decode(units, i + 4, le)
    ELSE <<Unit16(units, i, le)>> \o utf_16_decode(units, i + 2, le)
utf_16_valid(units, i) == (Len(units) - i + 1) % 2 = 0

\* the most significant byte of the four bytes at i, and the value of the
\* other three
High32(units, i, le) == IF le THEN units[i + 3] ELSE units[i]
Unit32(units, i, le) ==
    IF le THEN units[i] + 256 * units[i + 1] + 65536 * units[i + 2]
    ELSE 65536 * units[i + 1] + 256 * units[i + 2] + units[i + 3]
RECURSIVE utf_32_decode(_, _, _)
utf_32_decode(units, i, le) ==
    IF i > Len(units) THEN <<>>
    ELSE <<Unit32(units, i, le)>> \o utf_32_decode(units, i + 4, le)
utf_32_valid(units, i, le) ==
    /\ (Len(units) - i + 1) % 4 = 0
    /\ \A k \in 0..(((Len(units) - i + 1) \div 4) - 1) :
           /\ High32(units, i + 4 * k, le) = 0
           /\ Unit32(units, i + 4 * k, le) <= 1114111

\* the units start with these bytes
StartsWith(units, bom) == Len(units) >= Len(bom) /\ SubSeq(units, 1, Len(bom)) = bom

\* json.detect_encoding(b)
detect_encoding(b) ==
    IF StartsWith(b, <<0, 0, 254, 255>>) \/ StartsWith(b, <<255, 254, 0, 0>>)
    THEN "utf-32"
    ELSE IF StartsWith(b, <<254, 255>>) \/ StartsWith(b, <<255, 254>>) THEN "utf-16"
    ELSE IF StartsWith(b, <<239, 187, 191>>) THEN "utf-8-sig"
    ELSE IF Len(b) >= 4 /\ b[1] = 0
    THEN IF b[2] # 0 THEN "utf-16-be" ELSE "utf-32-be"
    ELSE IF Len(b) >= 4 /\ b[2] = 0
    THEN IF b[3] # 0 \/ b[4] # 0 THEN "utf-16-le" ELSE "utf-32-le"
    ELSE IF Len(b) = 2 /\ b[1] = 0 THEN "utf-16-be"
    ELSE IF Len(b) = 2 /\ b[2] = 0 THEN "utf-16-le"
    ELSE "utf-8"

\* b.decode(encoding, "surrogatepass"): the code points, or UnicodeDecodeError
Decoding(valid, codes) ==
    IF valid THEN [raised |-> "", codes |-> codes]
    ELSE [raised |-> "UnicodeDecodeError", codes |-> <<>>]
bytes_decode(b, encoding) ==
    IF encoding = "utf-8"
    THEN Decoding(utf_8_valid(b, 1, TRUE), utf_8_decode(b, 1, TRUE))
    ELSE IF encoding = "utf-8-sig"
    THEN Decoding(utf_8_valid(b, 4, TRUE), utf_8_decode(b, 4, TRUE))
    ELSE IF encoding = "utf-16"
    THEN Decoding(utf_16_valid(b, 3), utf_16_decode(b, 3, b[1] = 255))
    ELSE IF encoding \in {"utf-16-le", "utf-16-be"}
    THEN Decoding(utf_16_valid(b, 1), utf_16_decode(b, 1, encoding = "utf-16-le"))
    ELSE IF encoding = "utf-32"
    THEN Decoding(utf_32_valid(b, 5, b[1] = 255), utf_32_decode(b, 5, b[1] = 255))
    ELSE Decoding(utf_32_valid(b, 1, encoding = "utf-32-le"),
                  utf_32_decode(b, 1, encoding = "utf-32-le"))

----------------------------------------------------------------------------
(* sanitize_request_data: query strings *)

\* A str whose characters matter (a request body, a query string) is given
\* by its tokens, the pieces it is made of from left to right: a percent
\* escape (a "%" and two hex digits), a maximal run of unreserved characters
\* (a word), or any other character alone.
Text(q) == [t |-> "text", q |-> q]
isstr(v) == v.t \in {"str", "text"}

\* MASK_STRING, token by token
MaskTokens == <<"*", "*", "*", " ", "masked", " ", "*", "*", "*">>

\* urllib.parse._ALWAYS_SAFE: letters, digits and "_.-~"
AlwaysSafe ==
    DecimalDigits \cup {"_", ".", "-", "~"}
        \cup {"A", "B", "C", "D", "E", "F", "G", "H", "I", "J", "K", "L", "M",
              "N", "O", "P", "Q", "R", "S", "T", "U", "V", "W", "X", "Y", "Z"}
        \cup {"a", "b", "c", "d", "e", "f", "g", "h", "i", "j", "k", "l", "m",
              "n", "o", "p", "q", "r", "s", "t", "u", "v", "w", "x", "y", "z"}

\* where the word that starts at i ends, and where the token does
RECURSIVE WordEnd(_, _)
WordEnd(s, i) == IF Char(s, i) \in AlwaysSafe THEN WordEnd(s, i + 1) ELSE i
TokenEnd(s, i) ==
    IF Char(s, i) \in AlwaysSafe THEN WordEnd(s, i + 1)
    ELSE IF /\ Char(s, i) = "%"
            /\ Char(s, i + 1) \in HexDigits
            /\ Char(s, i + 2) \in HexDigits
    THEN i + 3
    ELSE i + Written(s, i)

\* the tokens of a str from i on
RECURSIVE Tokenise(_, _)
Tokenise(s, i) ==
    IF i > Len(s) THEN <<>>
    ELSE <<SubSeq(s, i, TokenEnd(s, i) - 1)>> \o Tokenise(s, TokenEnd(s, i))

\* the str made of the tokens q, and the tokens of the str s
StrOf(q) == Characters(q)
TokensOf(s) == Tokenise(s, 1)

\* str.split(sep) on tokens: the pieces between the separators
RECURSIVE SplitOn(_, _)
SplitOn(q, sep) ==
    IF \A i \in DOMAIN q : q[i] # sep THEN <<q>>
    ELSE LET i == CHOOSE i \in DOMAIN q :
                      q[i] = sep /\ \A j \in 1..(i - 1) : q[j] # sep
         IN  <<SubSeq(q, 1, i - 1)>> \o SplitOn(SubSeq(q, i + 1, Len(q)), sep)

\* name_value.split("=", 1)
SplitFirst(q, sep) ==
    IF \A i \in DOMAIN q : q[i] # sep THEN <<q>>
    ELSE LET i == CHOOSE i \in DOMAIN q :
                      q[i] = sep /\ \A j \in 1..(i - 1) : q[j] # sep
         IN  <<SubSeq(q, 1, i - 1), SubSeq(q, i + 1, Len(q))>>

\* s.replace(old, new) for characters that are tokens
replace(q, old, new) == [i \in DOMAIN q |-> IF q[i] = old THEN new ELSE q[i]]

\* a percent escape
IsEscape(tok) == Len(tok) = 3 /\ Char(tok, 1) = "%"

\* the last of the escapes that follow one another from q[i] on
RECURSIVE RunEnd(_, _)
RunEnd(q, i) == IF i < Len(q) /\ IsEscape(q[i + 1]) THEN RunEnd(q, i + 1) ELSE i

\* urllib.parse.unquote_to_bytes of the escapes q[i] to q[j]
unquote_to_bytes(q, i, j) ==
    [k \in 1..(j - i + 1) |-> int16(SubSeq(q[i + k - 1], 2, 3))]

\* urllib.parse.unquote from the token q[i] on: escapes that follow one
\* another are bytes, decoded as UTF-8 with errors="replace"; the rest stays
RECURSIVE unquote_from(_, _)
unquote_from(q, i) ==
    IF i > Len(q) THEN ""
    ELSE IF ~IsEscape(q[i]) THEN q[i] \o unquote_from(q, i + 1)
    ELSE StrOfCodes(utf_8_decode(unquote_to_bytes(q, i, RunEnd(q, i)), 1, FALSE))
             \o unquote_from(q, RunEnd(q, i) + 1)

\* urllib.parse.unquote(string) of the str of these tokens: a str
unquote(q) == unquote_from(TokensOf(Characters(q)), 1)

\* urllib.parse.quote_from_bytes(bs, safe=""): "%XX" for each of them
RECURSIVE quote_from_bytes(_)
quote_from_bytes(bs) ==
    IF bs = <<>> THEN ""
    ELSE "%" \o <<"0", "1", "2", "3", "4", "5", "6", "7", "8", "9", "A", "B", "C", "D", "E", "F">>[(Head(bs) \div 16) + 1]
             \o <<"0", "1", "2", "3", "4", "5", "6", "7", "8", "9", "A", "B", "C", "D", "E", "F">>[(Head(bs) % 16) + 1]
             \o quote_from_bytes(Tail(bs))

\* quote_plus from the character at i on: a safe character stays, a space
\* becomes "+", any other character the escapes of its UTF-8 bytes
RECURSIVE quote_from(_, _)
quote_from(s, i) ==
    IF i > Len(s) THEN ""
    ELSE (IF Char(s, i) \in AlwaysSafe THEN Char(s, i)
          ELSE IF Char(s, i) = " " THEN "+"
          ELSE quote_from_bytes(utf_8_encode(CodePointAt(s, i))))
             \o quote_from(s, i + Written(s, i))

\* urllib.parse.quote_plus(string) of the str of these tokens: the tokens of
\* the quoted str
quote_plus(q) == TokensOf(quote_from(Characters(q), 1))

\* string.encode("utf-8") does not raise UnicodeEncodeError: the str from i on
\* has no lone surrogate
RECURSIVE encodable(_, _)
encodable(s, i) ==
    \/ i > Len(s)
    \/ /\ ~(Written(s, i) = 6 /\ IsSurrogate(CodePointAt(s, i)))
       /\ encodable(s, i + Written(s, i))

\* urllib.parse.parse_qsl(qs, keep_blank_values=True, strict_parsing=True):
\* the (name, value) pairs in order, ValueError for a field without "="
parse_qsl(qs) ==
    LET query_args == IF qs = <<>> THEN <<>> ELSE SplitOn(qs, "&")
        nv == [i \in DOMAIN query_args |-> SplitFirst(query_args[i], "=")]
    IN  IF \E i \in DOMAIN nv : Len(nv[i]) # 2
        THEN [raised |-> "ValueError", pairs |-> <<>>]
        ELSE [raised |-> "",
              pairs |-> [i \in DOMAIN nv |->
                            <<unquote(replace(nv[i][1], "+", " ")),
                              unquote(replace(nv[i][2], "+", " "))>>]]

\* the values of name among the pairs, in order
RECURSIVE ValuesOf(_, _)
ValuesOf(pairs, name) ==
    IF pairs = <<>> THEN <<>>
    ELSE (IF Head(pairs)[1] = name THEN <<Str(Head(pairs)[2])>> ELSE <<>>)
             \o ValuesOf(Tail(pairs), name)

\* the names of the pairs in order of first appearance: the key order of the
\* dict parse_qs builds
RECURSIVE FirstSeen(_, _)
FirstSeen(pairs, seen) ==
    IF pairs = <<>> THEN <<>>
    ELSE IF Head(pairs)[1] \in seen THEN FirstSeen(Tail(pairs), seen)
    ELSE <<Head(pairs)[1]>> \o FirstSeen(Tail(pairs), seen \cup {Head(pairs)[1]})

\* urllib.parse.parse_qs: Dict[str, List[str]]
parse_qs(qs) ==
    LET got == parse_qsl(qs)
    IN  [raised |-> got.raised,
         keys |-> FirstSeen(got.pairs, {}),
         data |-> Dict([name \in {got.pairs[i][1] : i \in DOMAIN got.pairs} |->
                           List(ValuesOf(got.pairs, name))])]

\* the key order of the dict after the processors ran on it: keys keep their
\* place, a key they added comes last
RECURSIVE KeepKeys(_, _)
KeepKeys(keys, d) ==
    IF keys = <<>> THEN <<>>
    ELSE (IF Head(keys) \in DOMAIN d THEN <<Head(keys)>> ELSE <<>>)
             \o KeepKeys(Tail(keys), d)

dict_keys(keys, d) ==
    KeepKeys(keys, d) \o AnyOrder(DOMAIN d \ {keys[i] : i \in DOMAIN keys})

\* the fields key=value of one item of urlencode(query, doseq=True): a str
\* value gives one field, a list one field for each element
RECURSIVE FieldsOf(_, _)

\* (mutation) only the first element of a list value is encoded
FieldsOf_first(k, elts) ==
    IF elts = <<>> THEN <<>>
    ELSE << quote_plus(<<k>>) \o <<"=">> \o quote_plus(<<Head(elts).s>>) >>

FieldsOf(k, elts) ==
    IF elts = <<>> THEN <<>>
    ELSE << quote_plus(<<k>>) \o <<"=">> \o quote_plus(<<Head(elts).s>>) >>
             \o FieldsOf(k, Tail(elts))

RECURSIVE JoinWith(_, _)
JoinWith(fields, sep) ==
    IF fields = <<>> THEN <<>>
    ELSE IF Len(fields) = 1 THEN fields[1]
    ELSE fields[1] \o <<sep>> \o JoinWith(Tail(fields), sep)

RECURSIVE ItemFields(_, _)
ItemFields(keys, d) ==
    IF keys = <<>> THEN <<>>
    ELSE LET v == d[Head(keys)]
         IN  (IF isstr(v) THEN FieldsOf(Head(keys), <<v>>)
              ELSE FieldsOf(Head(keys), v.l))
                 \o ItemFields(Tail(keys), d)

\* urllib.parse.urlencode(query, doseq=True); keys is the dict's key order
urlencode(keys, query) == JoinWith(ItemFields(keys, query.d), "&")

\* urlencode does not raise UnicodeEncodeError: every key and every value of
\* the query can be encoded
urlencodable(query) ==
    \A k \in DOMAIN query.d :
        /\ encodable(k, 1)
        /\ IF isstr(query.d[k]) THEN encodable(query.d[k].s, 1)
           ELSE \A i \in DOMAIN query.d[k].l : encodable(query.d[k].l[i].s, 1)

----------------------------------------------------------------------------
(* sanitize_request_data *)

\* getattr(obj, name, default)
getattr(obj, name, default) == IF name \in DOMAIN obj THEN obj[name] ELSE default

\* the tokens of a str
chars(data) == TokensOf(IF data.t = "text" THEN Characters(data.q) ELSE data.s)

\* (mutation) the text fallback masks whatever the flag says
text_fallback_always(data) == Str(MASK_STRING)

\* except ValueError: MASK_STRING if PREFER_TEXT_FALLBACK_MASKING else data
text_fallback(data) ==
    IF config.PREFER_TEXT_FALLBACK_MASKING THEN Str(MASK_STRING) ELSE data

\* (mutation) the text fallback is applied to everything that is not a dict
not_a_dict_fallback(data) == text_fallback(data)

\* if not isinstance(data, dict): return data
not_a_dict(data) == data

\* the names sanitize_data selects when the context stack is stack
mask_names_on(stack, explicit) == explicit \cup UNION Range(stack) \cup _global_masks

\* sanitize_request_data, the return statement: done is the outcome of
\* sanitize_data(data) and left that of leaving the with statement around it
AfterContext(is_str, keys, done, left) ==
    IF Raised(done.raised, left.ret) # ""
    THEN [raised |-> Raised(done.raised, left.ret),
          stack |-> left.stack, applied |-> done.applied]
    ELSE IF is_str /\ ~urlencodable(done.heap[done.ret])
    THEN [raised |-> "UnicodeEncodeError",
          stack |-> left.stack, applied |-> done.applied]
    ELSE [raised |-> "",
          ret |-> IF is_str
                  THEN Text(urlencode(dict_keys(keys, done.heap[done.ret].d),
                                      done.heap[done.ret]))
                  ELSE done.heap[done.ret],
          stack |-> left.stack, applied |-> done.applied]

\* (mutation) the frame of the request's names is left on the stack
InContext_leak(stack, request, is_str, keys, done) ==
    AfterContext(is_str, keys, done,
                 [stack |-> __init__(stack, getattr(request, "_apply_mask_processors",
                                                    List(<<>>))),
                  ret |-> None])

\* with SensitivePathContext(mask_names): masked_data = sanitize_data(data)
\* where done is the outcome of sanitize_data(data)
InContext(stack, request, is_str, keys, done) ==
    AfterContext(is_str, keys, done,
                 __exit__(__init__(stack, getattr(request, "_apply_mask_processors",
                                                  List(<<>>))),
                          done.raised))

\* sanitize_request_data after parse_qs: parsed is what it gave for a str, and
\* the data itself for any other value
AfterParsing(stack, request, data, order, parsed) ==
    IF parsed.raised = "ValueError"
    THEN [raised |-> "", ret |-> text_fallback(data), stack |-> stack,
          applied |-> {}]
    ELSE IF ~isdict(parsed.data)
    THEN [raised |-> "", ret |-> not_a_dict(parsed.data), stack |-> stack,
          applied |-> {}]
    ELSE InContext(stack, request, isstr(data), parsed.keys,
                   sanitize_data(SetItem(<<>>, CallerRef, parsed.data), CallerRef,
                                 order))

\* sanitize_request_data(request, data) with the context stack at stack; order
\* is the iteration order of the selected names in sanitize_data
sanitize_request_data(stack, request, data, order) ==
    AfterParsing(stack, request, data, order,
                 IF isstr(data) THEN parse_qs(chars(data))
                 ELSE [raised |-> "", keys |-> <<>>, data |-> data])

\* Inputs of sanitize_request_data
MaxFields == 2      \* fields per generated query string

\* fields with a value to hide, a blank value, a value with "=", values
\* with "+" and percent escapes (one of a byte that is not UTF-8) and a
\* character that urlencode quotes, and fields without "="
QFields ==
    { <<"key1", "=", "hide">>, <<"key1", "=">>, <<"key2", "=", "x", "=", "y">>,
      <<"key2", "=", "a", "+", "%2A">>, <<"key1", "=", "<", "%ff">>,
      <<"key1">>, <<>>, <<"not", " ", "a", " ", "query", " ", "string">> }

\* a value or a key with a lone surrogate, which parses and cannot be encoded
\* again
Surrogates ==
    { <<"key1", "=", "\\udc80">>,
      <<"key1", "=", "hide", "&", "key2", "=", "\\udc80">>,
      <<"\\udc80", "=", "1">>,
      <<"key1", "=", "hide", "&", "\\udc80", "=", "1">> }

QueryStrings ==
    {JoinWith(fs, "&") : fs \in UNION {[1..n -> QFields] : n \in 0..MaxFields}}
        \cup Surrogates

\* tests/test_context_managers.py: payload, and dicts like a parsed JSON body
Payload ==
    Dict([key1 |-> Str("value1"), key2 |-> Str("value2"), key3 |-> Str("value3")])

RequestDicts ==
    { Payload, Dict(EmptyDict),
      Dict([key2 |-> Dict([key1 |-> Str("value1")]),
            key1 |-> List(<<Str("value1"), None>>)]) }

\* values that are neither a dict nor a str
Absurd ==
    { List(<<>>), List(<<Payload>>), List(<<Str("key1=hide")>>), None,
      Tuple(<<Payload, Str("value1")>>) }

RequestData == {Text(q) : q \in QueryStrings} \cup RequestDicts \cup Absurd

\* request objects, with and without _apply_mask_processors
Fake == [method |-> "GET"]
WithMasks(names) == [method |-> "GET", _apply_mask_processors |-> names]
Requests ==
    { Fake, WithMasks(Str("Pat1")), WithMasks(List(<<"Pat1", "Pat2">>)),
      WithMasks(Str("ALL")), WithMasks(Str("N/A")) }

\* tests/test_context_managers.py: the registry after setup, Pat2 global or not
RequestArgs == [Pat1 |-> << <<"key1">> >>, Pat2 |-> << <<"key2">> >>]
RequestRegistries ==
    { add_mask_processor(
          add_mask_processor(ImportRegistry, "Pat1",
                             SensitivePaths(RequestArgs.Pat1), FALSE),
          "Pat2", SensitivePaths(RequestArgs.Pat2), is_global) :
        is_global \in BOOLEAN }

\* the scopes the caller of sanitize_request_data is inside
RequestScopes ==
    { <<>>,
      << [cls |-> "SensitivePathContext", paths |-> Str("Pat2"),
          stack_before |-> <<>>] >> }

----------------------------------------------------------------------------
(* The values the event builders handle *)

\* a datetime, as microseconds on the clock
DateTime(us) == [t |-> "datetime", us |-> us]

\* dt.strftime("%Y-%m-%d %H:%M:%S.%f"): the text of dt, to the microsecond
strftime(dt) == [t |-> "str", strftime |-> dt.us]

\* bytes, one token per character as in Text
Bytes(q) == [t |-> "bytes", q |-> q]

\* bool(x) of None, a str, bytes, a dict or an object
IsNone(x) == "t" \in DOMAIN x /\ x.t = "none"
truthy(x) ==
    IF ~("t" \in DOMAIN x) THEN TRUE
    ELSE IF x.t = "none" THEN FALSE
    ELSE IF x.t \in {"text", "bytes"} THEN x.q # <<>>
    ELSE IF x.t = "str" THEN x.s # ""
    ELSE IF x.t = "dict" THEN DOMAIN x.d # {}
    ELSE TRUE

\* body.decode("utf-8", "replace"): bytes that are not UTF-8 become U+FFFD
decode(body) ==
    Text(TokensOf(StrOfCodes(utf_8_decode(CodePoints(Characters(body.q)), 1, FALSE))))

\* json.loads: the decoder reads the document character by character.  i is
\* the position of the next character of the str s; a parse is the exception
\* raised, or the value and the position after it.

\* json.decoder.WHITESPACE
Whitespace == {" ", "\t", "\n", "\r"}
SkipWhitespace(s, i) == SkipWhile(s, i, Whitespace)

JSONDecodeError == [raised |-> "JSONDecodeError"]
Parsed(value, end) == [raised |-> "", value |-> value, end |-> end]

\* int(integer) of a run of digits
RECURSIVE int(_)
int(digits) ==
    IF digits = "" THEN 0
    ELSE 10 * int(SubSeq(digits, 1, Len(digits) - 1))
            + DigitValue(Char(digits, Len(digits)))

\* the Python values of JSON numbers and constants
PyInt(n) == [t |-> "int", n |-> n]
Float(text) == [t |-> "float", text |-> text]
Bool(b) == [t |-> "bool", b |-> b]

\* json.scanner.NUMBER_RE, (-?(?:0|[1-9]\d*))(\.\d+)?([eE][-+]?\d+)? at i: where
\* the integer part, the fraction and the exponent of the match end
IntegerEnd(s, first) ==
    IF Char(s, first) = "0" THEN first + 1 ELSE SkipWhile(s, first, DecimalDigits)
FractionEnd(s, int_end) ==
    IF Char(s, int_end) = "." /\ Char(s, int_end + 1) \in DecimalDigits
    THEN SkipWhile(s, int_end + 1, DecimalDigits) ELSE int_end
ExponentFirst(s, frac_end) ==
    IF Char(s, frac_end + 1) \in {"-", "+"} THEN frac_end + 2 ELSE frac_end + 1
ExponentEnd(s, frac_end) ==
    IF /\ Char(s, frac_end) \in {"e", "E"}
       /\ Char(s, ExponentFirst(s, frac_end)) \in DecimalDigits
    THEN SkipWhile(s, ExponentFirst(s, frac_end), DecimalDigits) ELSE frac_end

\* the number matched from i to end - 1, whose digits start at first: a float
\* when it has a fraction or an exponent, or else an int; an int of more than
\* nine digits is kept by its digits
Number(s, i, first, int_end, end) ==
    IF Char(s, first) \notin DecimalDigits THEN JSONDecodeError
    ELSE IF end # int_end THEN Parsed(Float(SubSeq(s, i, end - 1)), end)
    ELSE IF int_end - first > 9
    THEN Parsed([t |-> "int", digits |-> SubSeq(s, i, end - 1)], end)
    ELSE Parsed(PyInt(IF first = i THEN int(SubSeq(s, first, int_end - 1))
                      ELSE -int(SubSeq(s, first, int_end - 1))), end)
MatchNumber(s, i, first, int_end) ==
    Number(s, i, first, int_end, ExponentEnd(s, FractionEnd(s, int_end)))
ParseNumber(s, i) ==
    IF Char(s, i) = "-" THEN MatchNumber(s, i, i + 1, IntegerEnd(s, i + 1))
    ELSE MatchNumber(s, i, i, IntegerEnd(s, i))

\* json.decoder.BACKSLASH: the character an escape stands for
Unescaped ==
    [c \in {"\"", "\\\\", "/", "b", "f", "n", "r", "t"} |->
        IF c = "b" THEN chr(8) ELSE IF c = "f" THEN "\f"
        ELSE IF c = "n" THEN "\n" ELSE IF c = "r" THEN "\r"
        ELSE IF c = "t" THEN "\t" ELSE c]

\* json.decoder.scanstring (strict) from the character after the opening
\* quote on: the str up to the closing quote.  A control character, an
\* unknown escape and a str that does not end are errors.
RECURSIVE scanstring(_, _, _)

\* the escape \uXXXX whose backslash is at i (the backslash is written with
\* two characters): the character of that code point; a high surrogate and
\* the low surrogate of a second escape right after it are one character
UnicodeEscape(s, i, chunks) ==
    IF \E k \in 3..6 : Char(s, i + k) \notin HexDigits THEN JSONDecodeError
    ELSE IF /\ IsHighSurrogate(int16(SubSeq(s, i + 3, i + 6)))
            /\ Char(s, i + 7) = "\\" /\ Char(s, i + 8) = "\\" /\ Char(s, i + 9) = "u"
    THEN IF \E k \in 10..13 : Char(s, i + k) \notin HexDigits THEN JSONDecodeError
         ELSE IF IsLowSurrogate(int16(SubSeq(s, i + 10, i + 13)))
         THEN scanstring(s, i + 14,
                         chunks \o chr(JoinSurrogates(int16(SubSeq(s, i + 3, i + 6)),
                                                      int16(SubSeq(s, i + 10, i + 13)))))
         ELSE scanstring(s, i + 7, chunks \o chr(int16(SubSeq(s, i + 3, i + 6))))
    ELSE scanstring(s, i + 7, chunks \o chr(int16(SubSeq(s, i + 3, i + 6))))

scanstring(s, i, chunks) ==
    IF Char(s, i) = "" THEN JSONDecodeError
    ELSE IF Char(s, i) = "\"" THEN Parsed(Str(chunks), i + 1)
    ELSE IF Char(s, i) # "\\"
    THEN IF Char(s, i) \in {"\t", "\n", "\f", "\r"} THEN JSONDecodeError
         ELSE scanstring(s, i + 1, chunks \o Char(s, i))
    ELSE IF Char(s, i + 1) # "\\"
    THEN IF CodePointAt(s, i) < 32 THEN JSONDecodeError
         ELSE scanstring(s, i + Written(s, i), chunks \o Character(s, i))
    ELSE IF Char(s, i + 2) = "u" THEN UnicodeEscape(s, i, chunks)
    ELSE IF Character(s, i + 2) \in DOMAIN Unescaped
    THEN scanstring(s, i + 2 + Written(s, i + 2),
                    chunks \o Unescaped[Character(s, i + 2)])
    ELSE JSONDecodeError

\* json.scanner.py_make_scanner, _scan_once(string, idx), with JSONObject and
\* JSONArray of json.decoder
RECURSIVE scan_once(_, _)
RECURSIVE JSONObject(_, _, _)
RECURSIVE JSONArray(_, _, _)

\* after a pair of an object, at the next character that is not whitespace:
\* the object ends, or another pair follows a comma
ObjectNext(s, after, read) ==
    IF Char(s, after) = "}" THEN Parsed(Dict(read), after + 1)
    ELSE IF Char(s, after) # "," THEN JSONDecodeError
    ELSE JSONObject(s, SkipWhitespace(s, after + 1), read)

\* the pair of key and value is added to the pairs read
ObjectValue(s, pairs, key, value) ==
    IF value.raised # "" THEN value
    ELSE ObjectNext(s, SkipWhitespace(s, value.end),
                    SetItem(pairs, key.value.s, value.value))

\* after the key of a pair: a colon, then the value
ObjectKey(s, pairs, key) ==
    IF key.raised # "" THEN key
    ELSE IF Char(s, SkipWhitespace(s, key.end)) # ":" THEN JSONDecodeError
    ELSE ObjectValue(s, pairs, key,
                     scan_once(s, SkipWhitespace(s, SkipWhitespace(s, key.end) + 1)))

\* the pairs of an object from the key at i on; pairs are the ones read
JSONObject(s, i, pairs) ==
    IF Char(s, i) # "\"" THEN JSONDecodeError
    ELSE ObjectKey(s, pairs, scanstring(s, i + 1, ""))

\* after an element of an array, at the next character that is not
\* whitespace: the array ends, or another element follows a comma
ArrayNext(s, after, read) ==
    IF Char(s, after) = "]" THEN Parsed(List(read), after + 1)
    ELSE IF Char(s, after) # "," THEN JSONDecodeError
    ELSE JSONArray(s, SkipWhitespace(s, after + 1), read)
ArrayValue(s, values, value) ==
    IF value.raised # "" THEN value
    ELSE ArrayNext(s, SkipWhitespace(s, value.end), Append(values, value.value))

\* the elements of an array from the value at i on; values are the ones read
JSONArray(s, i, values) == ArrayValue(s, values, scan_once(s, i))

scan_once(s, i) ==
    IF Char(s, i) = "" THEN JSONDecodeError
    ELSE IF Char(s, i) = "\"" THEN scanstring(s, i + 1, "")
    ELSE IF Char(s, i) = "{"
    THEN IF Char(s, SkipWhitespace(s, i + 1)) = "}"
         THEN Parsed(Dict(EmptyDict), SkipWhitespace(s, i + 1) + 1)
         ELSE JSONObject(s, SkipWhitespace(s, i + 1), EmptyDict)
    ELSE IF Char(s, i) = "["
    THEN IF Char(s, SkipWhitespace(s, i + 1)) = "]"
         THEN Parsed(List(<<>>), SkipWhitespace(s, i + 1) + 1)
         ELSE JSONArray(s, SkipWhitespace(s, i + 1), <<>>)
    ELSE IF substr(s, i, i + 3) = "null" THEN Parsed(None, i + 4)
    ELSE IF substr(s, i, i + 3) = "true" THEN Parsed(Bool(TRUE), i + 4)
    ELSE IF substr(s, i, i + 4) = "false" THEN Parsed(Bool(FALSE), i + 5)
    ELSE IF Char(s, i) \in DecimalDigits \cup {"-"} /\ ParseNumber(s, i).raised = ""
    THEN ParseNumber(s, i)
    ELSE IF substr(s, i, i + 2) = "NaN" THEN Parsed(Float("NaN"), i + 3)
    ELSE IF substr(s, i, i + 7) = "Infinity" THEN Parsed(Float("Infinity"), i + 8)
    ELSE IF substr(s, i, i + 8) = "-Infinity" THEN Parsed(Float("-Infinity"), i + 9)
    ELSE JSONDecodeError

\* JSONDecoder.decode(s): one value between whitespace, and nothing after it
WholeDocument(s, obj) ==
    IF obj.raised # "" THEN obj
    ELSE IF SkipWhitespace(s, obj.end) # Len(s) + 1 THEN JSONDecodeError
    ELSE [raised |-> "", value |-> obj.value]
JSONDecoder_decode(s) == WholeDocument(s, scan_once(s, SkipWhitespace(s, 1)))

\* json.loads(s) of bytes: they are decoded as detect_encoding says, which
\* may raise UnicodeDecodeError
loads_decoded(decoding) ==
    IF decoding.raised # "" THEN [raised |-> decoding.raised]
    ELSE JSONDecoder_decode(StrOfCodes(decoding.codes))
loads_bytes(b) == loads_decoded(bytes_decode(b, detect_encoding(b)))

\* json.loads(s) of a str starting with U+FEFF is a JSONDecodeError
loads_str(s) ==
    IF substr(s, 1, 6) = "\\ufeff" THEN JSONDecodeError ELSE JSONDecoder_decode(s)

\* json.loads(s): the value, or the exception raised
json_loads(s) ==
    IF s.t = "text" THEN loads_str(Characters(s.q))
    ELSE IF s.t = "str" THEN loads_str(s.s)
    ELSE IF s.t = "bytes" THEN loads_bytes(CodePoints(Characters(s.q)))
    ELSE [raised |-> "TypeError"]

\* str.upper() of the method names used here
UpperCase == [get |-> "GET", post |-> "POST"]
upper(s) == Str(IF s.s \in DOMAIN UpperCase THEN UpperCase[s.s] ELSE s.s)

\* f"{x}" of None or a str
format(x) == IF x.t = "none" THEN "None" ELSE x.s

----------------------------------------------------------------------------
(* RequestLogContext, the event builders and RequestEdgeEndFilter *)

\* the names sanitize_data selects inside sanitize_request_data(request, data)
SelectedFor(request) ==
    mask_names_on(__init__(_mask_names,
                           getattr(request, "_apply_mask_processors", List(<<>>))),
                  {})

\* sanitize_request_data(request, data) as an event builder calls it; order is
\* the iteration order of SelectedFor(request)
Sanitized(request, data, order) ==
    sanitize_request_data(_mask_names, request, data, order)

\* try: sanitize_request_data(request, json.loads(text))
\* except json.JSONDecodeError: sanitize_request_data(request, text)
\* where loaded is the outcome of json.loads(text)
LoadedOrText(request, text, loaded, order) ==
    IF loaded.raised \notin {"", "JSONDecodeError"} THEN [raised |-> loaded.raised]
    ELSE Sanitized(request, IF loaded.raised = "" THEN loaded.value ELSE text, order)

\* Python floats: calculate_response_time_ms multiplies the float
\* timedelta.total_seconds() by 1000 and truncates, so the rounding of the two
\* float operations decides the millisecond.  A positive float is kept as the
\* bits of its significand, most significant first, and a binary exponent:
\* its value is the number the bits spell times 2^exp.  The arithmetic is
\* done on limbs of ten bits, most significant first.
SignificandBits == 53       \* bits of the significand of a Python float
LimbBits == 10              \* bits of a limb
QuotientLimbs == 8          \* limbs of fraction the long division works out

\* the natural number a sequence of bits spells
RECURSIVE NatOf(_)
NatOf(bits) ==
    IF bits = <<>> THEN 0
    ELSE 2 * NatOf(SubSeq(bits, 1, Len(bits) - 1)) + bits[Len(bits)]

\* a sequence of bits without its leading zeros
StripZeros(bits) ==
    IF \A i \in DOMAIN bits : bits[i] = 0 THEN <<>>
    ELSE SubSeq(bits, CHOOSE i \in DOMAIN bits :
                          bits[i] = 1 /\ \A j \in 1..(i - 1) : bits[j] = 0,
                Len(bits))

\* the limbs of an int below 2^40, and the bits of a sequence of limbs
LimbsOf(n) == [i \in 1..4 |-> (n \div (2 ^ (LimbBits * (4 - i)))) % (2 ^ LimbBits)]
BitsOfLimbs(limbs) ==
    [i \in 1..(LimbBits * Len(limbs)) |->
        (limbs[((i - 1) \div LimbBits) + 1]
            \div (2 ^ (LimbBits - 1 - ((i - 1) % LimbBits)))) % 2]

\* the limbs of a sequence of bits
LimbsOfBits(bits) ==
    LET n == (Len(bits) + LimbBits - 1) \div LimbBits
        padded == [i \in 1..(n * LimbBits - Len(bits)) |-> 0] \o bits
    IN  [j \in 1..n |-> NatOf(SubSeq(padded, LimbBits * (j - 1) + 1, LimbBits * j))]

\* bits + 1
Increment(bits) ==
    IF \A i \in DOMAIN bits : bits[i] = 1
    THEN <<1>> \o [i \in DOMAIN bits |-> 0]
    ELSE LET z == CHOOSE i \in DOMAIN bits :
                      bits[i] = 0 /\ \A j \in (i + 1)..Len(bits) : bits[j] = 1
         IN  [i \in DOMAIN bits |-> IF i < z THEN bits[i] ELSE IF i = z THEN 1 ELSE 0]

\* long division of the number limbs spell by d, a limb at a time: rem is the
\* remainder so far, quotient the limbs worked out
RECURSIVE LongDivision(_, _, _, _)
LongDivision(limbs, d, rem, quotient) ==
    IF limbs = <<>> THEN [quotient |-> quotient, rem |-> rem]
    ELSE LongDivision(Tail(limbs), d,
                      (rem * (2 ^ LimbBits) + Head(limbs)) % d,
                      Append(quotient, (rem * (2 ^ LimbBits) + Head(limbs)) \div d))

\* limbs times the small number m, from the least significant limb on
RECURSIVE TimesSmall(_, _, _)
TimesSmall(limbs, m, carry) ==
    IF limbs = <<>> THEN LimbsOf(carry)
    ELSE Append(TimesSmall(SubSeq(limbs, 1, Len(limbs) - 1), m,
                           (limbs[Len(limbs)] * m + carry) \div (2 ^ LimbBits)),
                (limbs[Len(limbs)] * m + carry) % (2 ^ LimbBits))

\* round to nearest, ties to even: the exact value is the number bits spell
\* (no leading zero) plus a fraction that is positive exactly when inexact,
\* times 2^exp
RoundToFloat(bits, inexact, exp) ==
    IF Len(bits) <= SignificandBits THEN [bits |-> bits, exp |-> exp]
    ELSE LET kept == SubSeq(bits, 1, SignificandBits)
             rest == SubSeq(bits, SignificandBits + 1, Len(bits))
             more == inexact \/ \E i \in 2..Len(rest) : rest[i] = 1
             up == rest[1] = 1 /\ (more \/ kept[SignificandBits] = 1)
         IN  [bits |-> IF up THEN Increment(kept) ELSE kept,
              exp |-> exp + Len(rest)]

\* the outcome of LongDivision as a float
Quotient(q) ==
    RoundToFloat(StripZeros(BitsOfLimbs(q.quotient)), q.rem # 0,
                 -(LimbBits * QuotientLimbs))

\* n / d of two positive ints (int.__truediv__): the float nearest to the
\* quotient
true_divide(n, d) ==
    Quotient(LongDivision(LimbsOf(n) \o [i \in 1..QuotientLimbs |-> 0], d, 0, <<>>))

\* x * m of a float and a small positive int (float.__mul__)
float_times(x, m) ==
    RoundToFloat(StripZeros(BitsOfLimbs(TimesSmall(LimbsOfBits(x.bits), m, 0))),
                 FALSE, x.exp)

\* int(x) of a float that is not negative: the integer part
int_of_float(x) ==
    IF x.exp >= 0 THEN NatOf(x.bits \o [i \in 1..x.exp |-> 0])
    ELSE IF Len(x.bits) + x.exp <= 0 THEN 0
    ELSE NatOf(SubSeq(x.bits, 1, Len(x.bits) + x.exp))

\* int(timedelta(microseconds=us).total_seconds() * 1000); total_seconds() is
\* us / 10**6, and int() truncates toward zero
milliseconds(us) ==
    IF us = 0 THEN 0
    ELSE IF us > 0 THEN int_of_float(float_times(true_divide(us, 1000000), 1000))
    ELSE -int_of_float(float_times(true_divide(-us, 1000000), 1000))

MaxTicks == 1       \* ticks of the clock, 1.001 seconds each

\* milliseconds(us) of the times that can pass on the clock, a tick being
\* 1.001 seconds, worked out once
ElapsedMilliseconds == [n \in 0..MaxTicks |-> milliseconds(n * 1001000)]

\* calculate_response_time_ms(start_time, end_time):
\* int((end_time - start_time).total_seconds() * 1000), or -1 without end time
calculate_response_time_ms(start_time, end_time) ==
    IF ~truthy(end_time) THEN -1
    ELSE IF (end_time.us - start_time.us) \in {n * 1001000 : n \in 0..MaxTicks}
    THEN ElapsedMilliseconds[(end_time.us - start_time.us) \div 1001000]
    ELSE milliseconds(end_time.us - start_time.us)

\* the extra dict both event builders pass to the logger
Extra(start, end, request_info, response_info, notes, direction, edge) ==
    [ start_time |-> strftime(start),
      end_time |-> IF truthy(end) THEN strftime(end) ELSE end,
      response_time_ms |-> calculate_response_time_ms(start, end),
      request |-> request_info,
      response |-> response_info,
      notes |-> notes,
      smart |-> TRUE,
      direction |-> direction,
      edge |-> edge ]

\* log_func = logger.error if exc_info else logger.info
\* log_func(log_msg, exc_info=exc_info, extra=extra)
LogCall(log_msg, exc_info, extra) ==
    [ level |-> IF truthy(exc_info) THEN "error" ELSE "info",
      msg |-> log_msg, exc_info |-> exc_info, extra |-> extra ]

\* a str built by an f-string, part by part
FString(parts) == [t |-> "str", parts |-> parts]

\* an empty dict, as request_info and response_info start
NoInfo == [k \in {} |-> None]

\* the part of an event one block of an event builder assembles: the exception
\* it raised, or the info dict it built and log_msg when it is done
Part(info, log_msg) == [raised |-> "", info |-> info, log_msg |-> log_msg]

\* if exc_info: ... log_func(log_msg, exc_info=exc_info, extra=extra), after the
\* request block and the response block
EventCall(start, end, exc_info, notes, direction, edge, request_part, response_part) ==
    IF request_part.raised # "" THEN [raised |-> request_part.raised]
    ELSE IF response_part.raised # "" THEN [raised |-> response_part.raised]
    ELSE [raised |-> "",
          call |-> LogCall(response_part.log_msg, exc_info,
                           Extra(start, end, request_part.info, response_part.info,
                                 notes, direction, edge))]

\* log_msg += f" ({response.status_code})"
AddStatus(log_msg, response) ==
    FString(log_msg.parts \o <<" (", ToString(response.status_code), ")">>)

\* log_outgoing_request_event, edge == RequestEdge.START
OutgoingStart(method, url) ==
    LET upper_method == upper(IF truthy(method) THEN method ELSE Str(""))
    IN  Part([method |-> upper_method, url |-> url],
             FString(<<"OUTGOING (start): ", upper_method.s, " ", format(url)>>))

\* log_outgoing_request_event, if request: with headers and data the outcomes
\* of the two calls of sanitize_request_data
OutgoingRequest(request, headers, data) ==
    IF ~truthy(request) THEN Part(NoInfo, None)
    ELSE IF headers.raised # "" THEN [raised |-> headers.raised]
    ELSE IF truthy(request.body) /\ data.raised # "" THEN [raised |-> data.raised]
    ELSE Part([method |-> request.method, url |-> request.url,
               path |-> request.path_url, headers |-> headers.ret]
                  @@ (IF truthy(request.body) THEN [data |-> data.ret] ELSE NoInfo),
              FString(<<"OUTGOING (end): ", request.method.s, " ", request.url.s>>))

\* log_outgoing_request_event, if response is not None: with data the outcome of
\* sanitizing the response text
OutgoingResponse(response, log_msg, data) ==
    IF IsNone(response) THEN Part(NoInfo, log_msg)
    ELSE IF IsNone(log_msg) THEN [raised |-> "TypeError"]
    ELSE IF data.raised # "" THEN [raised |-> data.raised]
    ELSE Part([status_code |-> response.status_code, data |-> data.ret],
              AddStatus(log_msg, response))

\* log_outgoing_request_event, the else branch of edge == RequestEdge.START
OutgoingEnd(start, end, response, exc_info, notes, edge, request_part, data) ==
    EventCall(start, end, exc_info, notes, "OUTGOING", edge, request_part,
              IF request_part.raised # "" THEN request_part
              ELSE OutgoingResponse(response, request_part.log_msg, data))

\* request.body, decoded when it is bytes
body_text(body) == IF body.t = "bytes" THEN decode(body) ELSE body

\* log_outgoing_request_event(start=, end=, logger=, request=, response=, ...,
\* edge=): the call made on the logger, or the exception raised before it; order
\* is the iteration order of the selected mask names
log_outgoing_request_event(start, end, request, response, request_data, exc_info, notes, method, url, edge, order) ==
    IF edge = "START"
    THEN EventCall(start, end, exc_info, notes, "OUTGOING", edge,
                   Part(OutgoingStart(method, url).info, None),
                   Part(NoInfo, OutgoingStart(method, url).log_msg))
    ELSE OutgoingEnd(start, end, response, exc_info, notes, edge,
                     OutgoingRequest(
                         request,
                         Sanitized(request, Dict(request.headers), order),
                         LoadedOrText(request, body_text(request.body),
                                      json_loads(body_text(request.body)), order)),
                     LoadedOrText(request, getattr(response, "text", Text(<<>>)),
                                  json_loads(getattr(response, "text", Text(<<>>))),
                                  order))

\* str.startswith(prefix)
startswith(s, prefix) ==
    Len(s) >= Len(prefix) /\ SubSeq(s, 1, Len(prefix)) = prefix

\* h.startswith("HTTP_") for the keys of request.META
startswith_HTTP_(h) == startswith(h, "HTTP_")

\* {h: v for h, v in request.META.items() if h.startswith("HTTP_")}
http_headers(META) ==
    Dict([h \in {k \in DOMAIN META : startswith_HTTP_(k)} |-> META[h]])

\* d.get(key, default)
dict_get(d, key, default) == IF key \in DOMAIN d THEN d[key] ELSE default

\* response_info["data"] when the response has _log_data == False
NotLogged == Dict([NOT_LOGGED |-> Str("_log_data == False")])

\* the first exception the four calls of sanitize_request_data on a request
\* raise, "" when none does
SanitizedRaised(POST, GET, data, headers) ==
    IF POST.raised # "" THEN POST.raised
    ELSE IF GET.raised # "" THEN GET.raised
    ELSE IF data.raised # "" THEN data.raised
    ELSE headers.raised

\* log_incoming_request_event, edge == RequestEdge.START
IncomingStart(request, method, url, POST, GET, data, headers) ==
    IF ~truthy(request)
    THEN Part(NoInfo, FString(<<"INCOMING (start): ", format(method), " ", format(url)>>))
    ELSE IF "REMOTE_ADDR" \notin DOMAIN request.META THEN [raised |-> "KeyError"]
    ELSE IF SanitizedRaised(POST, GET, data, headers) # ""
    THEN [raised |-> SanitizedRaised(POST, GET, data, headers)]
    ELSE Part([method |-> request.method,
               remote_addr |-> request.META["REMOTE_ADDR"],
               url_scheme |-> request.scheme, path |-> request.path,
               POST |-> POST.ret, GET |-> GET.ret, data |-> data.ret,
               headers |-> headers.ret],
              FString(<<"INCOMING (start): ", request.method.s, " ", request.path.s>>))

\* log_incoming_request_event, if request: on the END edge
IncomingRequest(request, POST, GET, data, headers) ==
    IF ~truthy(request) THEN Part(NoInfo, None)
    ELSE IF SanitizedRaised(POST, GET, data, headers) # ""
    THEN [raised |-> SanitizedRaised(POST, GET, data, headers)]
    ELSE Part([method |-> request.method,
               remote_addr |-> dict_get(request.META, "REMOTE_ADDR", Str("")),
               url_scheme |-> dict_get(request.META, "wsgi.url_scheme", Str("https")),
               path |-> request.path,
               POST |-> POST.ret, GET |-> GET.ret, data |-> data.ret,
               headers |-> headers.ret],
              FString(<<"INCOMING (end): ", request.method.s, " ", request.path.s>>))

\* getattr(response, "_log_data", True)
log_data(response) == getattr(response, "_log_data", TRUE)

\* response_headers.get("Content-Type", "") == "application/json"
is_json_response(response) ==
    dict_get(getattr(response, "headers", NoInfo), "Content-Type", "")
        = "application/json"

\* (mutation) the sentinel is attached only when response content is logged
IncomingResponse_sentinel_if_enabled(response, log_msg, content) ==
    IF IsNone(response) THEN Part(NoInfo, log_msg)
    ELSE IF IsNone(log_msg) THEN [raised |-> "TypeError"]
    ELSE IF log_data(response)
    THEN IF config.LOG_RESPONSE_CONTENT /\ is_json_response(response)
         THEN IF content.raised # "" THEN [raised |-> content.raised]
              ELSE Part([status_code |-> response.status_code, data |-> content.ret],
                        AddStatus(log_msg, response))
         ELSE Part([status_code |-> response.status_code], AddStatus(log_msg, response))
    ELSE IF config.LOG_RESPONSE_CONTENT
    THEN Part([status_code |-> response.status_code, data |-> NotLogged],
              AddStatus(log_msg, response))
    ELSE Part([status_code |-> response.status_code], AddStatus(log_msg, response))

\* log_incoming_request_event, if response is not None: with content the outcome
\* of sanitize_request_data(request, json.loads(response.content))
IncomingResponse(response, log_msg, content) ==
    IF IsNone(response) THEN Part(NoInfo, log_msg)
    ELSE IF IsNone(log_msg) THEN [raised |-> "TypeError"]
    ELSE IF log_data(response)
    THEN IF config.LOG_RESPONSE_CONTENT /\ is_json_response(response)
         THEN IF content.raised # "" THEN [raised |-> content.raised]
              ELSE Part([status_code |-> response.status_code, data |-> content.ret],
                        AddStatus(log_msg, response))
         ELSE Part([status_code |-> response.status_code], AddStatus(log_msg, response))
    ELSE Part([status_code |-> response.status_code, data |-> NotLogged],
              AddStatus(log_msg, response))

\* log_incoming_request_event, the else branch of edge == RequestEdge.START
IncomingEnd(start, end, response, exc_info, notes, edge, request_part, content) ==
    EventCall(start, end, exc_info, notes, "INCOMING", edge, request_part,
              IF request_part.raised # "" THEN request_part
              ELSE IncomingResponse(response, request_part.log_msg, content))

\* log_incoming_request_event after the calls of sanitize_request_data, whose
\* outcomes are POST, GET, data, headers and content
IncomingEvent(start, end, request, response, exc_info, notes, method, url, edge, POST, GET, data, headers, content) ==
    IF edge = "START"
    THEN EventCall(start, end, exc_info, notes, "INCOMING", edge,
                   IncomingStart(request, method, url, POST, GET, data, headers),
                   Part(NoInfo,
                        IncomingStart(request, method, url, POST, GET, data,
                                      headers).log_msg))
    ELSE IncomingEnd(start, end, response, exc_info, notes, edge,
                     IncomingRequest(request, POST, GET, data, headers), content)

\* sanitize_request_data(request, json.loads(content)), loaded the outcome of
\* json.loads(content)
Loaded(request, loaded, order) ==
    IF loaded.raised # "" THEN [raised |-> loaded.raised]
    ELSE Sanitized(request, loaded.value, order)

\* log_incoming_request_event(start=, end=, logger=, request=, response=, ...,
\* edge=): the call made on the logger, or the exception raised before it
log_incoming_request_event(start, end, request, response, request_data, exc_info, notes, method, url, edge, order) ==
    IncomingEvent(start, end, request, response, exc_info, notes, method, url, edge,
                  Sanitized(request, request.POST, order),
                  Sanitized(request, request.GET, order),
                  Sanitized(request, request_data, order),
                  Sanitized(request, http_headers(request.META), order),
                  Loaded(request, json_loads(response.content), order))

\* self.make_log_func(...), by the name of the function given at construction
make_log_func(name, start, end, request, response, request_data, exc_info, notes, method, url, edge, order) ==
    IF name = "log_outgoing_request_event"
    THEN log_outgoing_request_event(start, end, request, response, request_data,
                                    exc_info, notes, method, url, edge, order)
    ELSE log_incoming_request_event(start, end, request, response, request_data,
                                    exc_info, notes, method, url, edge, order)

\* (mutation) the filter drops every START record, smart or not
filter_edge_only(record) == getattr(record, "edge", "END") = "END"

\* RequestEdgeEndFilter.filter(record)
filter(record) ==
    IF ~getattr(record, "smart", FALSE) THEN TRUE
    ELSE record.edge = "END"

\* logging.Logger.makeRecord: the record of a call, the keys of extra set on it
makeRecord(call) ==
    [levelname |-> call.level, msg |-> call.msg, exc_info |-> call.exc_info]
        @@ call.extra

\* RequestLogContext(request=, request_data=, method=, url=, make_log_func=)
\* constructed when the clock reads clock
RequestLogContext(request, request_data, method, url, name, clock) ==
    [ cls |-> "RequestLogContext", start_time |-> DateTime(clock), response |-> None,
      request |-> request, request_data |-> request_data, notes |-> None,
      method |-> method, url |-> url, make_log_func |-> name ]

\* RequestLogContext.__enter__: the START event
RequestLogContext__enter__(self, order) ==
    make_log_func(self.make_log_func, self.start_time, None, self.request, None,
                  self.request_data, None, self.notes, self.method, self.url,
                  "START", order)

\* (exc_type, exc_val, exc_tb) if exc_type else None
ExcInfo(exc_type) ==
    IF exc_type # "" THEN [t |-> "tuple", exc_type |-> exc_type] ELSE None

\* a method that ends by returning ret unless the call it made raised
Returning(made, ret) == IF made.raised # "" THEN made ELSE made @@ [ret |-> ret]

\* RequestLogContext.__exit__ when the clock reads clock: the END event
RequestLogContext__exit__(self, exc_type, clock, order) ==
    Returning(make_log_func(self.make_log_func, self.start_time, DateTime(clock),
                            self.request, self.response, self.request_data,
                            ExcInfo(exc_type), self.notes, None, None, "END", order),
              None)

\* Inputs of the request log
MaxCalls == 2       \* calls on the logger before the last new one

JsonObject == <<"{", "\"key1\"", ":", "\"hide\"", "}">>
NotJson == <<"<", "html", ">">>

\* requests.PreparedRequest objects
Prepared(body) ==
    [ method |-> Str("POST"), url |-> Str("https://example.com/"),
      path_url |-> Str("/"), headers |-> [key1 |-> Str("hide"), Accept |-> Str("a *")],
      body |-> body ]
PreparedRequests ==
    { Prepared(Text(<<"key1", "=", "hide">>)),
      Prepared(Bytes(JsonObject)) @@ [_apply_mask_processors |-> Str("Pat1")] }

\* requests.Response objects
OutgoingResponses ==
    { [status_code |-> 200, text |-> Text(JsonObject)] }

\* django.http.HttpRequest objects
HttpRequest ==
    [ method |-> Str("GET"), scheme |-> Str("https"), path |-> Str("/api/"),
      META |-> [REMOTE_ADDR |-> Str("127.0.0.1"), HTTP_KEY1 |-> Str("hide"),
                SERVER_NAME |-> Str("testserver")],
      POST |-> Dict(EmptyDict), GET |-> Dict([key1 |-> Str("hide")]) ]
HttpRequests == { HttpRequest }

\* django.http.HttpResponse objects
HttpResponse(content, content_type) ==
    [ status_code |-> 200, content |-> Bytes(content),
      headers |-> SetItem(NoInfo, "Content-Type", content_type) ]
HttpResponses ==
    { HttpResponse(JsonObject, "application/json"),
      HttpResponse(NotJson, "application/json") }

\* the arguments RequestLogContext is constructed with
LogContextArgs ==
    { [request |-> None, request_data |-> None, method |-> m.method, url |-> m.url,
       make_log_func |-> f] :
        m \in { [method |-> None, url |-> None],
                [method |-> Str("post"), url |-> Str("https://example.com/")] },
        f \in {"log_outgoing_request_event", "log_incoming_request_event"} }
    \cup
    { [request |-> r, request_data |-> Payload, method |-> None, url |-> None,
       make_log_func |-> "log_incoming_request_event"] : r \in HttpRequests }

\* the extra of the calls other code makes on the logger
PlainExtras ==
    { NoInfo, [smart |-> FALSE, edge |-> "START"], [smart |-> TRUE, edge |-> "START"] }

\* the logger's handler: the call, the scope it came from (0 for none) and
\* whether the handler's RequestEdgeEndFilter lets its record through
Handle(call, scope) ==
    [call |-> call, scope |-> scope, passed |-> filter(makeRecord(call))]

InRequestLog == scopes # <<>> /\ scopes[Len(scopes)].cls = "RequestLogContext"

\* with RequestLogContext(...) as log_context: the scope of an incoming
\* request is the outermost, the requests made while serving it open their own
EnterRequestLog ==
    /\ Len(scopes) < MaxDepth
    /\ Len(logger_calls) < MaxCalls
    /\ \E args \in LogContextArgs :
        /\ scopes # <<>> =>
              /\ scopes[Len(scopes)].make_log_func = "log_incoming_request_event"
              /\ args.make_log_func = "log_outgoing_request_event"
        /\ \E order \in Orderings(SelectedFor(args.request)) :
          \E self \in {RequestLogContext(args.request, args.request_data, args.method,
                                          args.url, args.make_log_func, now * 1001000)} :
          \E made \in {RequestLogContext__enter__(self, order)} :
          \E id \in {Len(logger_calls) + 1} :
              IF made.raised # ""
              THEN /\ last' = [op |-> "__enter__", cls |-> "RequestLogContext",
                               raised |-> made.raised]
                   /\ UNCHANGED <<scopes, logger_calls>>
              ELSE /\ last' = [op |-> "__enter__", cls |-> "RequestLogContext",
                               raised |-> "", id |-> id]
                   /\ scopes' = Append(scopes, self @@ [id |-> id])
                   /\ logger_calls' = Append(logger_calls, Handle(made.call, id))
    /\ UNCHANGED <<config, _mask_processors, _global_masks, _mask_names, input, now>>

\* log_context.request = request, in the body of an outgoing scope
SetRequest ==
    /\ InRequestLog
    /\ scopes[Len(scopes)].make_log_func = "log_outgoing_request_event"
    /\ IsNone(scopes[Len(scopes)].request)
    /\ \E request \in PreparedRequests :
          scopes' = [scopes EXCEPT ![Len(scopes)].request = request]
    /\ last' = [op |-> "body"]
    /\ UNCHANGED <<config, _mask_processors, _global_masks, _mask_names, input,
                   logger_calls, now>>

\* log_context.response = response, in the body of a scope
SetResponse ==
    /\ InRequestLog
    /\ IsNone(scopes[Len(scopes)].response)
    /\ \E response \in IF scopes[Len(scopes)].make_log_func
                            = "log_outgoing_request_event"
                       THEN OutgoingResponses ELSE HttpResponses :
          scopes' = [scopes EXCEPT ![Len(scopes)].response = response]
    /\ last' = [op |-> "body"]
    /\ UNCHANGED <<config, _mask_processors, _global_masks, _mask_names, input,
                   logger_calls, now>>

\* time passes
Tick ==
    /\ now < MaxTicks
    /\ now' = now + 1
    /\ UNCHANGED <<config, _mask_processors, _global_masks, _mask_names, input, last,
                   scopes, logger_calls>>

\* the body of the with statement ends, normally or by raising
ExitRequestLog ==
    /\ InRequestLog
    /\ \E exc_type \in BodyOutcomes :
        \E order \in Orderings(SelectedFor(scopes[Len(scopes)].request)) :
          \E self \in {scopes[Len(scopes)]} :
          \E left \in {RequestLogContext__exit__(self, exc_type, now * 1001000, order)} :
              IF left.raised # ""
              THEN /\ last' = [op |-> "__exit__", cls |-> "RequestLogContext",
                               id |-> self.id, self |-> self,
                               exc_type |-> exc_type,
                               raised |-> left.raised]
                   /\ UNCHANGED logger_calls
              ELSE /\ last' = [op |-> "__exit__", cls |-> "RequestLogContext",
                               id |-> self.id, self |-> self,
                               exc_type |-> exc_type,
                               raised |-> Raised(exc_type, left.ret)]
                   /\ logger_calls' = Append(logger_calls, Handle(left.call, self.id))
    /\ scopes' = SubSeq(scopes, 1, Len(scopes) - 1)
    /\ UNCHANGED <<config, _mask_processors, _global_masks, _mask_names, input, now>>

\* logger.info(msg, extra=extra) from code outside the scopes
PlainLog ==
    /\ Len(logger_calls) < MaxCalls
    /\ \E extra \in PlainExtras :
          logger_calls' =
              Append(logger_calls,
                     Handle(LogCall(FString(<<"message">>), None, extra), 0))
    /\ last' = [op |-> "log"]
    /\ UNCHANGED <<config, _mask_processors, _global_masks, _mask_names, input,
                   scopes, now>>

----------------------------------------------------------------------------
(* The program: registry, context stack, configuration and sanitize_data *)

\* sanitize_request_data(request, payload), called between the registry and
\* scope operations of the caller
SanitizeRequest ==
    \E request \in {Fake, WithMasks(Str("Pat1"))} :
        \E order \in Orderings(
              mask_names_on(__init__(_mask_names,
                                     getattr(request, "_apply_mask_processors",
                                             List(<<>>))), {})) :
            \E r \in {sanitize_request_data(_mask_names, request, Payload, order)} :
                /\ Ready
                /\ _mask_names' = r.stack
                /\ last' = IF r.raised = ""
                           THEN [op |-> "sanitize_request_data", outcome |-> "return",
                                 request |-> request, data |-> Payload,
                                 applied |-> r.applied, ret |-> r.ret]
                           ELSE [op |-> "sanitize_request_data", outcome |-> r.raised,
                                 request |-> request, data |-> Payload,
                                 applied |-> r.applied]
                /\ UNCHANGED <<config, _mask_processors, _global_masks, input, scopes,
                               logger_calls, now>>

NoInput == [fn |-> "none"]

Init ==
    /\ config = _defaults
    /\ _mask_processors = ImportRegistry.processors
    /\ _global_masks = ImportRegistry.globals
    /\ _mask_names = <<>>
    /\ input = NoInput
    /\ last = [op |-> "import"]
    /\ scopes = <<>>
    /\ logger_calls = <<>>
    /\ now = 0

Next ==
    \/ Reconfigure
    \/ AddMaskProcessor
    \/ RemoveMaskProcessor
    \/ EnterContext
    \/ ExitContext
    \/ SanitizeData
    \/ SanitizeRequest
    \/ Continue

Spec == Init /\ [][Next]_vars

----------------------------------------------------------------------------
(* SensitivePaths(args) on generated pattern sets *)

InitCompile ==
    /\ config = _defaults
    /\ _mask_processors = ImportRegistry.processors
    /\ _global_masks = ImportRegistry.globals
    /\ _mask_names = <<>>
    /\ input \in {[fn |-> "SensitivePaths", patterns |-> S] : S \in CompileArgSets}
    /\ last = [op |-> "import"]
    /\ scopes = <<>>
    /\ logger_calls = <<>>
    /\ now = 0

\* sp = SensitivePaths(args), the patterns given in some order
Construct ==
    /\ input.fn = "SensitivePaths"
    /\ \E args \in Orderings(input.patterns) :
          last' = [op |-> "SensitivePaths", args |-> args,
                   root_paths |-> SensitivePaths(args)]
    /\ UNCHANGED <<config, _mask_processors, _global_masks, _mask_names, input, scopes, logger_calls, now>>

SpecCompile == InitCompile /\ [][Construct]_vars

----------------------------------------------------------------------------
(* SensitivePaths(p) on one pattern and on its spelling variants *)

\* the patterns given to SensitivePaths one at a time
NormPatterns == {Join(q) : q \in SegSeqs(Segs, MaxPatLen)}

\* the patterns already given before the one under check
NormOthers == { <<>>, << Join(<<"b", "a">>) >>, << <<"*">> >> }

InitNormalise ==
    /\ config = _defaults
    /\ _mask_processors = ImportRegistry.processors
    /\ _global_masks = ImportRegistry.globals
    /\ _mask_names = <<>>
    /\ input \in {[fn |-> "normalise", p |-> p, others |-> o] :
                     p \in NormPatterns, o \in NormOthers}
    /\ last = [op |-> "import"]
    /\ scopes = <<>>
    /\ logger_calls = <<>>
    /\ now = 0

\* SensitivePaths(others, p) with p spelled p, "/" + p, p + "/", p + "/*",
\* and with p given twice
Normalise ==
    /\ input.fn = "normalise"
    /\ last.op = "import"
    /\ last' = [op |-> "normalise",
                plain |-> SensitivePaths(input.others \o <<input.p>>),
                leading |-> SensitivePaths(input.others \o << <<"/">> \o input.p >>),
                trailing |-> SensitivePaths(input.others \o << input.p \o <<"/">> >>),
                star |-> SensitivePaths(input.others \o << input.p \o <<"/", "*">> >>),
                twice |-> SensitivePaths(input.others \o <<input.p, input.p>>)]
    /\ UNCHANGED <<config, _mask_processors, _global_masks, _mask_names, input, scopes, logger_calls, now>>

SpecNormalise == InitNormalise /\ [][Normalise]_vars

----------------------------------------------------------------------------
(* SensitivePaths(args).process(data) on generated rule sets and data *)

InitProcess ==
    /\ config \in {[_defaults EXCEPT !.ENABLE_SENSITIVE_PATHS_PROCESSOR = TRUE,
                                     !.SHOW_NESTED_KEYS_IN_SENSITIVE_PATHS = b] :
                      b \in BOOLEAN}
    /\ _mask_processors = ImportRegistry.processors
    /\ _global_masks = ImportRegistry.globals
    /\ _mask_names = <<>>
    /\ input \in {[fn |-> "process", args |-> a, heap |-> h,
                      data |-> Unfold(h, Ref(CallerRef))] :
                     a \in ProcessArgs, h \in DocHeaps}
    /\ last = [op |-> "import"]
    /\ scopes = <<>>
    /\ logger_calls = <<>>
    /\ now = 0

\* sp = SensitivePaths(args); sp.process(data)
Process ==
    /\ input.fn = "process"
    /\ last.op = "import"
    /\ \E heap \in {process(SensitivePaths(input.args), input.heap, CallerRef)} :
          last' = [op |-> "process", root_paths |-> SensitivePaths(input.args),
                   heap_after |-> heap,
                   data_after |-> Unfold(heap, Ref(CallerRef))]
    /\ UNCHANGED <<config, _mask_processors, _global_masks, _mask_names, input, scopes, logger_calls, now>>

SpecProcess == InitProcess /\ [][Process]_vars

----------------------------------------------------------------------------
(* JsonFormatter.format: the size limit of the serialized record.  A str    *)
(* whose length matters is Text(q) with one character per element of q; a   *)
(* record is a function from attribute names to values.                     *)

\* the characters of a str
CharsOf(s) == CharsFrom(s, 1)

\* the decimal digits of a natural number
RECURSIVE Digits(_)
Digits(n) ==
    IF n < 10 THEN <<<<"0", "1", "2", "3", "4", "5", "6", "7", "8", "9">>[n + 1]>>
    ELSE Digits(n \div 10) \o Digits(n % 10)

\* the characters json.dumps writes as a backslash and one more character;
\* it writes \uXXXX for every other character that is not printable ASCII
\* (the grave accent is), and two of them for a character above U+FFFF
JsonEscaped == {"\"", "\\\\", "\n", "\r", "\t", "\f", "\\x08"}

\* len(json.dumps(s)) of the str of these characters
json_dumps_len_str(q) ==
    2 + Len(q) + Cardinality({i \in DOMAIN q : q[i] \in JsonEscaped})
        + 5 * Cardinality({i \in DOMAIN q : Len(q[i]) \in {4, 6} /\ q[i] \notin {"\\x08", "\\x60"}})
        + 11 * Cardinality({i \in DOMAIN q : Len(q[i]) = 10})

\* len(json.dumps(v, cls=ObjectTypeEncoder)) with the default separators
\* ", " and ": "
RECURSIVE json_dumps_len(_)
json_dumps_len(v) ==
    IF v = None THEN 4
    ELSE IF v = True THEN 4
    ELSE IF v.t = "bool" THEN IF v.b THEN 4 ELSE 5
    ELSE IF v.t = "int" THEN IF v.n < 0 THEN 1 + Len(Digits(-v.n)) ELSE Len(Digits(v.n))
    ELSE IF v.t = "text" THEN json_dumps_len_str(v.q)
    ELSE IF v.t = "str" THEN json_dumps_len_str(CharsOf(v.s))
    ELSE IF v.t = "list"
    THEN LET ItemsLen[n \in 0..Len(v.l)] ==
                IF n = 0 THEN 0 ELSE ItemsLen[n - 1] + json_dumps_len(v.l[n])
         IN  IF v.l = <<>> THEN 2 ELSE 2 + ItemsLen[Len(v.l)] + 2 * (Len(v.l) - 1)
    ELSE \* a dict: braces, "key": value, and ", " between the items
         LET ItemLen[S \in SUBSET DOMAIN v.d] ==
                IF S = {} THEN 0
                ELSE LET k == CHOOSE x \in S : TRUE
                     IN  json_dumps_len_str(CharsOf(k)) + 2 + json_dumps_len(v.d[k])
                            + ItemLen[S \ {k}]
         IN  IF DOMAIN v.d = {} THEN 2
             ELSE 2 + ItemLen[DOMAIN v.d] + 2 * (Cardinality(DOMAIN v.d) - 1)

\* str(v) of a str, None or an int
str(v) ==
    IF v = None THEN <<"N", "o", "n", "e">>
    ELSE IF v.t = "int" THEN IF v.n < 0 THEN <<"-">> \o Digits(-v.n) ELSE Digits(v.n)
    ELSE IF v.t = "str" THEN CharsOf(v.s)
    ELSE v.q

\* " **TRUNCATED**"
TRUNCATED == <<" ", "*", "*", "T", "R", "U", "N", "C", "A", "T", "E", "D", "*", "*">>

\* MAX_JSON_DATA_TO_LOG - 50
truncate_margin == 50

\* (mutation) no margin: the data are cut at MAX_JSON_DATA_TO_LOG
truncate_length_no_margin(max) == max

truncate_length(max) == max - truncate_margin

\* response_obj["data"] = response_data[:truncate_length] + " **TRUNCATED**"
\* when response_data is longer than length
Truncated(response_obj, response_data, length) ==
    IF Len(response_data) > length
    THEN Dict(SetItem(response_obj.d, "data", Text(SubSeq(response_data, 1, length) \o TRUNCATED)))
    ELSE response_obj

\* the block under "if config.MAX_JSON_DATA_TO_LOG and len(resp) > ...":
\* log_data after it
Limited(data_to_log, response_obj, length) ==
    IF truthy(response_obj) /\ length > 0
    THEN SetItem(SetItem(data_to_log, "max_data_exceeded", True), "response",
                 Truncated(response_obj, str(dict_get(response_obj.d, "data", Text(<<>>))),
                           length))
    ELSE SetItem(data_to_log, "max_data_exceeded", True)

\* logging.Formatter.formatException(exc_info) of an exception without message
\* and without traceback: its name
formatException(exc_info) == Text(CharsOf(exc_info.exc_type))

\* record.exc_text after logging.Formatter.format(record): the text of the
\* exception is worked out once and kept on the record
exc_text(record) ==
    IF truthy(getattr(record, "exc_info", None))
          /\ ~truthy(getattr(record, "exc_text", None))
    THEN formatException(record.exc_info)
    ELSE getattr(record, "exc_text", None)

\* s = s + "\n" unless s[-1:] == "\n"
EndLine(s) == IF s # <<>> /\ s[Len(s)] = "\n" THEN s ELSE Append(s, "\n")

\* logging.Formatter.format(record) with the default format "%(message)s" for
\* a record without args and stack_info: the message, and the text of the
\* exception after it
Formatter_format(record) ==
    Text(IF truthy(exc_text(record))
         THEN EndLine(str(record.msg)) \o exc_text(record).q
         ELSE str(record.msg))

\* the record after logging.Formatter.format(record), which sets message and
\* exc_text on it
AfterFormatter(record) ==
    SetItem(SetItem(record, "message", Text(str(record.msg))),
            "exc_text", exc_text(record))

\* {**a, **b}
Spread(a, b) == [k \in DOMAIN a \cup DOMAIN b |-> IF k \in DOMAIN b THEN b[k] ELSE a[k]]

\* log_data as format() builds it for a record; msg is super().format(record)
LogData(self, record, msg) ==
    IF getattr(record, "smart", FALSE)
    THEN Spread(Spread(self.default_extra,
                       [ msg |-> msg,
                         start_time |-> getattr(record, "start_time", Text(<<>>)),
                         end_time |-> getattr(record, "end_time", Text(<<>>)),
                         response_time_ms |-> getattr(record, "response_time_ms", Text(<<>>)),
                         request |-> record.request,
                         response |-> getattr(record, "response", None),
                         notes |-> getattr(record, "notes", None) ]),
                getattr(record, "extra", NoInfo))
    ELSE Spread(Spread(self.default_extra, [msg |-> msg]),
                getattr(record, "extra", NoInfo))

\* (mutation) a limit of 0 is a limit like any other
Formatted_zero_limits(data_to_log, resp_len) ==
    IF resp_len > config.MAX_JSON_DATA_TO_LOG
    THEN Limited(data_to_log, dict_get(data_to_log, "response", None),
                 truncate_length(config.MAX_JSON_DATA_TO_LOG))
    ELSE data_to_log

\* JsonFormatter.format(record) when the first json.dumps gave resp_len
\* characters: the dict the returned string serializes
Formatted(data_to_log, resp_len) ==
    IF config.MAX_JSON_DATA_TO_LOG # 0 /\ resp_len > config.MAX_JSON_DATA_TO_LOG
    THEN Limited(data_to_log, dict_get(data_to_log, "response", None),
                 truncate_length(config.MAX_JSON_DATA_TO_LOG))
    ELSE data_to_log

\* the object log_data["response"] is: the one of record.extra, of the record
\* or of the formatter's default_extra
ResponseFrom(self, record) ==
    IF "response" \in DOMAIN getattr(record, "extra", NoInfo) THEN "extra"
    ELSE IF getattr(record, "smart", FALSE)
    THEN IF "response" \in DOMAIN record THEN "record" ELSE "none"
    ELSE IF "response" \in DOMAIN self.default_extra THEN "default_extra"
    ELSE "none"

\* response_obj["data"] = ... is an assignment inside the object the record
\* holds: the formatter and the record after format(), which returned the
\* serialized dict returned
Assign(self, record, returned) ==
    IF ResponseFrom(self, record) = "extra"
    THEN [self |-> self, record |-> [record EXCEPT !.extra.response = returned.response]]
    ELSE IF ResponseFrom(self, record) = "record"
    THEN [self |-> self, record |-> [record EXCEPT !.response = returned.response]]
    ELSE IF ResponseFrom(self, record) = "default_extra"
    THEN [self |-> [self EXCEPT !.default_extra.response = returned.response],
          record |-> record]
    ELSE [self |-> self, record |-> record]

\* JsonFormatter.format(record): the dict the returned string serializes, the
\* length of the first json.dumps, and the formatter and the record after the
\* call
format_record(self, record) ==
    LET built == LogData(self, AfterFormatter(record), Formatter_format(record))
        resp_len == json_dumps_len(Dict(built))
    IN  [ resp_len |-> resp_len,
          log_data |-> Formatted(built, resp_len) ]
            @@ Assign(self, AfterFormatter(record), Formatted(built, resp_len))

\* Inputs of format
MaxJsonData == 130  \* largest MAX_JSON_DATA_TO_LOG tried
MaxDataLen == 12    \* characters of the longest generated response data
MaxFormats == 4     \* calls of format on one record, as in test_format_limit

\* n characters, no two neighbours alike
Chars(n) == [i \in 1..n |-> Digits(i % 10)[1]]

\* tests/test_sumo.py: long_msg = "TEST " * 100
long_msg == Text([i \in 1..500 |-> <<"T", "E", "S", "T", " ">>[((i - 1) % 5) + 1]])

\* what response["data"] holds
ResponseData == {None, Text(<<"a", "\"", "b">>)} \cup {Text(Chars(n)) : n \in 0..MaxDataLen}

\* the response attribute of a record
ResponseInfos ==
    {Dict(EmptyDict), Dict([status_code |-> PyInt(200)])}
        \cup {Dict([data |-> D]) : D \in ResponseData}
        \cup {Dict([status_code |-> PyInt(200), data |-> D]) : D \in ResponseData}

\* the records formatted: smart records with and without a response, the
\* record of test_format_limit, the records of tests/test_logger.py with an
\* extra attribute, a record with exception info, and a record that is not
\* smart
FormatRecords ==
    {[msg |-> Text(<<"m">>), smart |-> TRUE, request |-> Dict(EmptyDict), response |-> r] :
        r \in ResponseInfos}
      \cup { [msg |-> Text(<<"m">>), smart |-> TRUE, request |-> Dict(EmptyDict)],
             [msg |-> long_msg, smart |-> TRUE, request |-> long_msg,
              response |-> Dict([data |-> long_msg])],
             [msg |-> Text(Chars(MaxDataLen)), smart |-> FALSE,
              request |-> Dict(EmptyDict), response |-> Dict([data |-> long_msg])],
             [msg |-> Text(<<"m">>), smart |-> TRUE, request |-> Dict(EmptyDict),
              response |-> Dict([data |-> Text(Chars(MaxDataLen))]),
              exc_info |-> [t |-> "tuple", exc_type |-> "ValueError"]] }
      \cup { [msg |-> Text(<<"m">>), smart |-> FALSE, request |-> Dict(EmptyDict),
              extra |-> [response |-> Dict([data |-> Text(Chars(MaxDataLen))])]] }
      \cup { [msg |-> long_msg, smart |-> smart, request |-> long_msg,
              response |-> Dict([data |-> long_msg]), extra |-> extra] :
                 smart \in BOOLEAN,
                 extra \in { [key |-> Text(CharsOf("value"))],
                             [response |-> Dict([data |-> Text(Chars(MaxDataLen))])] } }

\* JsonFormatter(default_extra=...) objects
JsonFormatters ==
    { [default_extra |-> NoInfo],
      [default_extra |-> [_extra_key |-> Text(CharsOf("some value"))]] }

\* the limits set between two calls of format, as in test_format_limit
LaterLimits == {0, 5, 60}

InitFormat ==
    /\ config \in {[_defaults EXCEPT !.MAX_JSON_DATA_TO_LOG = max] :
                      max \in (0..MaxJsonData) \cup {500}}
    /\ _mask_processors = ImportRegistry.processors
    /\ _global_masks = ImportRegistry.globals
    /\ _mask_names = <<>>
    /\ input \in {[fn |-> "format", self |-> f, record |-> r] :
                     f \in JsonFormatters, r \in FormatRecords}
    /\ last = [op |-> "import"]
    /\ scopes = <<>>
    /\ logger_calls = <<>>
    /\ now = 0

\* formatter.format(record): last holds the formatter and the record the call
\* was made with, input the two after it; logger_calls counts the calls
Format ==
    /\ input.fn = "format"
    /\ Len(logger_calls) < MaxFormats
    /\ \E done \in {format_record(input.self, input.record)} :
          /\ last' = [op |-> "format", self |-> input.self, record |-> input.record,
                      resp_len |-> done.resp_len, log_data |-> done.log_data]
          /\ input' = [input EXCEPT !.self = done.self, !.record = done.record]
          /\ logger_calls' = Append(logger_calls, done.resp_len)
    /\ UNCHANGED <<config, _mask_processors, _global_masks, _mask_names,
                   scopes, now>>

\* config.MAX_JSON_DATA_TO_LOG = max between two calls of format
SetLimit ==
    /\ last.op = "format"
    /\ Len(logger_calls) < MaxFormats
    /\ \E max \in LaterLimits \ {config.MAX_JSON_DATA_TO_LOG} :
          config' = [config EXCEPT !.MAX_JSON_DATA_TO_LOG = max]
    /\ last' = [op |-> "reconfigure"]
    /\ UNCHANGED <<_mask_processors, _global_masks, _mask_names, input, scopes,
                   logger_calls, now>>

NextFormat == Format \/ SetLimit

SpecFormat == InitFormat /\ [][NextFormat]_vars

----------------------------------------------------------------------------
(* sanitize_data(data, "Pat1", "Pat2") on generated pairs of rule sets *)

MaxChainLen == 2    \* segments per generated pattern of a pair of rule sets

\* the rule sets registered as Pat1 and Pat2: every pattern of up to
\* MaxChainLen segments, the mixed rule sets and those of tests/test_masking.py
ChainArgs ==
    {<<Join(q)>> : q \in SegSeqs(Segs, MaxChainLen)}
        \cup MixedArgs \cup {TestPathsArgs, SimpleArgs, AllArgs}

InitChain ==
    /\ config \in {[_defaults EXCEPT !.ENABLE_SENSITIVE_PATHS_PROCESSOR = TRUE,
                                     !.SHOW_NESTED_KEYS_IN_SENSITIVE_PATHS = b] :
                      b \in BOOLEAN}
    /\ \E r1 \in ChainArgs, r2 \in ChainArgs :
          /\ _mask_processors =
                add_mask_processor(
                    add_mask_processor(EmptyRegistry, "Pat1", SensitivePaths(r1), FALSE),
                    "Pat2", SensitivePaths(r2), FALSE).processors
    /\ _global_masks = {}
    /\ _mask_names = <<>>
    /\ input \in {[fn |-> "sanitize_data", heap |-> h, data |-> Unfold(h, Ref(CallerRef)),
                      mask_names |-> {"Pat1", "Pat2"}] :
                     h \in DocHeaps}
    /\ last = [op |-> "import"]
    /\ scopes = <<>>
    /\ logger_calls = <<>>
    /\ now = 0

\* sanitize_data(data, *mask_names), the set iterated in any order
SanitizeSelected ==
    /\ input.fn = "sanitize_data"
    /\ last.op = "import"
    /\ \E order \in Orderings(mask_names(input.mask_names)) :
          \E r \in {sanitize_data(input.heap, CallerRef, order)} :
              last' = [op |-> "sanitize_data", outcome |-> "return",
                       heap |-> input.heap, heap_after |-> r.heap,
                       data |-> input.data, mask_names |-> input.mask_names,
                       applied |-> r.applied,
                       data_after |-> Unfold(r.heap, Ref(CallerRef)),
                       ret_ref |-> r.ret, ret |-> Unfold(r.heap, Ref(r.ret))]
    /\ UNCHANGED <<config, _mask_processors, _global_masks, _mask_names, input,
                   scopes, logger_calls, now>>

SpecChain == InitChain /\ [][SanitizeSelected]_vars

----------------------------------------------------------------------------
(* SensitivePathContext used by two callers (threads) at once: _mask_names  *)
(* is a class attribute, one list for the process; list.append and          *)
(* list.pop are the atomic steps, and the callers' steps interleave freely. *)
(* Here scopes maps a caller to the with-statements that caller is inside.  *)

Callers == {"t1", "t2"}

InitThreads ==
    /\ config = _defaults
    /\ _mask_processors = ImportRegistry.processors
    /\ _global_masks = ImportRegistry.globals
    /\ _mask_names = <<>>
    /\ input = NoInput
    /\ last = [op |-> "import"]
    /\ scopes = [c \in Callers |-> <<>>]
    /\ logger_calls = <<>>
    /\ now = 0

\* caller c: with SensitivePathContext(paths):
ThreadEnter(c) ==
    \E paths \in ScopeArgs :
        /\ Len(scopes[c]) < MaxDepth
        /\ _mask_names' = __init__(_mask_names, paths)
        /\ scopes' = [scopes EXCEPT ![c] = Append(@, [cls |-> "SensitivePathContext",
                                                      paths |-> paths])]
        /\ last' = [op |-> "SensitivePathContext", caller |-> c, paths |-> paths]
        /\ UNCHANGED <<config, _mask_processors, _global_masks, input,
                       logger_calls, now>>

\* caller c: the body of its innermost scope ends and __exit__ runs
ThreadExit(c) ==
    \E exc_type \in BodyOutcomes :
        \E left \in {__exit__(_mask_names, exc_type)} :
            /\ scopes[c] # <<>>
            /\ _mask_names # <<>>
            /\ _mask_names' = left.stack
            /\ scopes' = [scopes EXCEPT ![c] = SubSeq(@, 1, Len(@) - 1)]
            /\ last' = [op |-> "__exit__", caller |-> c,
                        paths |-> scopes[c][Len(scopes[c])].paths,
                        exc_type |-> exc_type,
                        raised |-> Raised(exc_type, left.ret)]
            /\ UNCHANGED <<config, _mask_processors, _global_masks, input,
                           logger_calls, now>>

\* caller c: SensitivePathContext.get_mask_names(), as sanitize_data calls it
ThreadGetMaskNames(c) ==
    /\ last' = [op |-> "get_mask_names", caller |-> c, ret |-> get_mask_names]
    /\ UNCHANGED <<config, _mask_processors, _global_masks, _mask_names, input,
                   scopes, logger_calls, now>>

NextThreads ==
    \E c \in Callers :
        \/ ThreadEnter(c)
        \/ ThreadExit(c)
        \/ ThreadGetMaskNames(c)

SpecThreads == InitThreads /\ [][NextThreads]_vars

----------------------------------------------------------------------------
(* sanitize_request_data(request, data) on generated requests and data *)

InitRequest ==
    /\ config \in {[_defaults EXCEPT !.ENABLE_SENSITIVE_PATHS_PROCESSOR = e,
                                     !.PREFER_TEXT_FALLBACK_MASKING = f,
                                     !.SHOW_NESTED_KEYS_IN_SENSITIVE_PATHS = b] :
                      e \in BOOLEAN, f \in BOOLEAN, b \in BOOLEAN}
    /\ \E reg \in RequestRegistries :
          /\ _mask_processors = reg.processors
          /\ _global_masks = reg.globals
    /\ scopes \in RequestScopes
    /\ _mask_names = [i \in DOMAIN scopes |-> Frame(scopes[i].paths)]
    /\ input \in {[fn |-> "sanitize_request_data", request |-> r, data |-> D] :
                     r \in Requests, D \in RequestData}
    /\ last = [op |-> "import"]
    /\ logger_calls = <<>>
    /\ now = 0

\* sanitize_request_data(request, data)
SanitizeRequestData ==
    /\ input.fn = "sanitize_request_data"
    /\ last.op = "import"
    /\ \E order \in Orderings(
              mask_names_on(__init__(_mask_names,
                                     getattr(input.request, "_apply_mask_processors",
                                             List(<<>>))), {})) :
          LET r == sanitize_request_data(_mask_names, input.request, input.data, order)
          IN  /\ _mask_names' = r.stack
              /\ last' = IF r.raised = ""
                         THEN [op |-> "sanitize_request_data", outcome |-> "return",
                               applied |-> r.applied, ret |-> r.ret]
                         ELSE [op |-> "sanitize_request_data", outcome |-> r.raised,
                               applied |-> r.applied]
    /\ UNCHANGED <<config, _mask_processors, _global_masks, input, scopes,
                   logger_calls, now>>

SpecRequest == InitRequest /\ [][SanitizeRequestData]_vars

----------------------------------------------------------------------------
(* RequestResponseLoggerMiddleware.__call__ and logged_request *)

\* middleware.py: req_data = request.body.decode("utf-8", "replace"), then
\* json.loads(req_data), or {"raw_body": sanitize_request_data(request,
\* req_data)} on JSONDecodeError; loaded and raw are the outcomes of the two
RequestDataOf(loaded, raw) ==
    IF loaded.raised = "" THEN [raised |-> "", ret |-> loaded.value]
    ELSE IF loaded.raised # "JSONDecodeError" THEN [raised |-> loaded.raised]
    ELSE IF raw.raised # "" THEN [raised |-> raw.raised]
    ELSE [raised |-> "", ret |-> Dict([raw_body |-> raw.ret])]

\* request.FILES, a MultiValueDict given by the uploads in the order they were
\* added: items() yields each field once, in the order the fields were first
\* seen, with the last upload of the field
FieldsFirstSeen(FILES) ==
    SelectSeq([i \in DOMAIN FILES |->
                  IF \E j \in 1..(i - 1) : FILES[j].field = FILES[i].field
                  THEN "" ELSE FILES[i].field],
              LAMBDA field : field # "")
LastUpload(FILES, field) ==
    FILES[CHOOSE i \in DOMAIN FILES :
              /\ FILES[i].field = field
              /\ \A j \in (i + 1)..Len(FILES) : FILES[j].field # field]

\* [request.FILES[filename].name for filename, _ in request.FILES.items()]
file_list(FILES) ==
    List([k \in DOMAIN FieldsFirstSeen(FILES) |->
             LastUpload(FILES, FieldsFirstSeen(FILES)[k]).name])

\* the req_data of the middleware: the names of the uploaded files when there
\* are any, or else what the body holds
req_data(request, order) ==
    IF request.FILES # <<>>
    THEN [raised |-> "", ret |-> Dict([file_list |-> file_list(request.FILES)])]
    ELSE RequestDataOf(json_loads(decode(request.body)),
                       Sanitized(request, decode(request.body), order))

\* testapp/urls.py: the two named routes, by the path each reverses to
urlpatterns ==
    [n \in {"index", "log_no_resp_data"} |->
        IF n = "index" THEN "/" ELSE "/log_no_resp_data"]

\* django.urls.reverse(url_name): the path, or NoReverseMatch
reverse(url_name) ==
    IF url_name \in DOMAIN urlpatterns
    THEN [raised |-> "", ret |-> urlpatterns[url_name]]
    ELSE [raised |-> "NoReverseMatch"]

\* RequestResponseLoggerMiddleware._should_ignore(request): the path starts
\* with what a name of the blocklist reverses to; a name that does not reverse
\* is passed over, as both names of the default blocklist are here
_should_ignore(request) ==
    \E i \in DOMAIN config.MIDDLEWARE_BLOCKLIST :
        /\ reverse(config.MIDDLEWARE_BLOCKLIST[i]).raised = ""
        /\ startswith(request.path.s, reverse(config.MIDDLEWARE_BLOCKLIST[i]).ret)

\* what the code inside a scope did: it returned a response, or it raised
Responded(response) == [raised |-> "", response |-> response]
Raising(exc_type) == [raised |-> exc_type]

\* the scope at the end of the with block: the attributes the block assigned,
\* none of them when the wrapped call raised
Assigned(self, outcome, request, notes) ==
    IF outcome.raised # "" THEN self
    ELSE [self EXCEPT !.request = request, !.response = outcome.response,
                      !.notes = notes]

\* Inputs of the two wrappers
MaxBodyLen == 1     \* characters of a generated body that is not a document

BodyChars == {"<", "\\xff", "a"}
JsonTexts ==
    { <<"{", "\"key1\"", ":", "\"hide\"", "}">>,
      <<"[", "{", "\"key1\"", ":", "\"hide\"", "}", "]">>,
      <<"null">>,
      <<"{", "\"obj1\"", ":", " ", "{", "\"key1\"", ":", " ", "\"value\"", "}", "}">>,
      <<"{", "\"k\\\\u0065y1\"", ":", " ", "\"hi\\\\u0064e\\\\n\"", "}">> }
Bodies ==
    JsonTexts
        \cup { <<"key1", "=", "hide">> }
        \cup UNION {[1..n -> BodyChars] : n \in 0..MaxBodyLen}

\* an uploaded file, by the form field it came in and its name
Upload(field, name) == [field |-> field, name |-> Str(name)]

\* django.http.HttpRequest objects with a body
DjangoRequest(body, path) ==
    [HttpRequest EXCEPT !.path = Str(path)] @@ [body |-> Bytes(body), FILES |-> <<>>]
DjangoRequests ==
    {DjangoRequest(b, "/api/") : b \in {JsonObject, <<"key1", "=", "hide">>, <<"key1", "=", "\\xff">>}}
        \cup { DjangoRequest(JsonObject, "/admin/login/"),
               DjangoRequest(<<>>, "/log_no_resp_data"),
               DjangoRequest(JsonObject, "/api/")
                   @@ [_apply_mask_processors |-> Str("Pat1"),
                       _request_notes |-> Str("note")],
               [DjangoRequest(<<"--boundary">>, "/api/")
                   EXCEPT !.FILES = <<Upload("doc", "a.txt"), Upload("img", "c.png"),
                                      Upload("doc", "b.txt")>>] }

\* django.http responses: JsonResponse and HttpResponse, with and without
\* _log_data = False, and an object without headers
DjangoResponses ==
    LET plain == {HttpResponse(b, ct) :
                      b \in Bodies, ct \in {"application/json",
                                            "text/html; charset=utf-8"}}
                     \cup { [status_code |-> 404, content |-> Bytes(JsonObject)] }
    IN  plain \cup {r @@ [_log_data |-> FALSE] : r \in plain}

\* requests.Response objects, with their request; one has no text attribute
RequestsResponses ==
    { [status_code |-> 200, text |-> Text(t), request |-> Prepared(b)] :
          t \in Bodies, b \in {Bytes(JsonObject), Bytes(<<"key1", "=", "\\xff">>), Text(<<"<">>),
                              None} }
        \cup { [status_code |-> 500, request |-> Prepared(Text(<<"key1", "=", "hide">>))] }

\* a call of logged_request: its arguments, and what
\* original_request_method(method, url) does
Request(notes, sent) ==
    [ fn |-> "logged_request", method |-> Str("post"),
      url |-> Str("https://example.com/"), notes |-> notes, sent |-> sent ]

\* the requests a view makes
ViewRequests ==
    { Request(None, Responded([status_code |-> 200, text |-> Text(JsonObject),
                               request |-> Prepared(Bytes(JsonObject))])),
      Request(Str("note"), Raising("ValueError")) }

EventInputs ==
    { [fn |-> "__call__", request |-> r, view |-> v] :
          r \in DjangoRequests,
          v \in {Responded(x) : x \in DjangoResponses} \cup {Raising("ValueError")} }
    \cup
    { Request(n, s) :
          n \in {None, Str("note")},
          s \in {Responded(x) : x \in RequestsResponses} \cup {Raising("ValueError")} }

\* the two wrappers, enabled or not, on generated requests and outcomes
\* tests/test_incoming.py: test_blocklist blocks every path by the name
\* index; and a name that does not reverse before one that does
Blocklists == { <<"index">>, <<"swagger-docs", "log_no_resp_data">> }

InitEvent ==
    /\ config \in {[_defaults EXCEPT !.ENABLE_SENSITIVE_PATHS_PROCESSOR = TRUE,
                                     !.LOG_RESPONSE_CONTENT = c,
                                     !.ENABLE_LOGGING_MIDDLEWARE = m,
                                     !.ENABLE_OUTBOUND_REQUEST_LOGGING = m] :
                      c \in BOOLEAN, m \in BOOLEAN}
                  \cup {[_defaults EXCEPT !.MIDDLEWARE_BLOCKLIST = blocklist] :
                           blocklist \in Blocklists}
    /\ \E reg \in RequestRegistries :
          /\ "Pat2" \in reg.globals
          /\ _mask_processors = reg.processors
          /\ _global_masks = reg.globals
    /\ _mask_names = <<>>
    /\ input \in EventInputs
    /\ last = [op |-> "import"]
    /\ scopes = <<>>
    /\ logger_calls = <<>>
    /\ now = 0

\* Here scopes holds the calls of the two wrappers that have not returned: the
\* call, whether it logs, its RequestLogContext and the number of its START
\* record in logger_calls.
Call(call, logs, self, id) == [call |-> call, logs |-> logs, self |-> self, id |-> id]

InCall(fn) == scopes # <<>> /\ scopes[Len(scopes)].call.fn = fn

\* a wrapper is called: a call from outside finds no other in progress, a
\* view makes at most one request
MayCall(call) ==
    IF scopes = <<>> THEN last.op = "import" /\ call = input
    ELSE /\ InCall("__call__")
         /\ call \in ViewRequests
         /\ \A i \in DOMAIN logger_calls :
                "direction" \in DOMAIN logger_calls[i].call.extra
                    => logger_calls[i].call.extra.direction # "OUTGOING"

\* the wrapper ended before the wrapped call was made
Failed(call, raised) ==
    /\ last' = [op |-> call.fn, raised |-> raised, input |-> call]
    /\ UNCHANGED <<scopes, logger_calls>>

\* the wrapped call is made without a scope
Passed(call) ==
    /\ scopes' = Append(scopes, Call(call, FALSE, None, 0))
    /\ last' = [op |-> "call", fn |-> call.fn]
    /\ UNCHANGED logger_calls

\* with RequestLogContext(...) as log_context: __enter__ logs the START record
\* and the wrapped call is made
Entered(call, self, entered) ==
    IF entered.raised # "" THEN Failed(call, entered.raised)
    ELSE /\ logger_calls' = Append(logger_calls,
                                   Handle(entered.call, Len(logger_calls) + 1))
         /\ scopes' = Append(scopes, Call(call, TRUE, self, Len(logger_calls) + 1))
         /\ last' = [op |-> "__enter__", cls |-> "RequestLogContext",
                     fn |-> call.fn]

\* the wrapped call is over and the with statement is left: __exit__ logs the
\* END record, and the wrapper returns or raises
Left(frame, outcome, left) ==
    /\ scopes' = SubSeq(scopes, 1, Len(scopes) - 1)
    /\ IF left.raised # ""
       THEN /\ last' = [op |-> frame.call.fn, raised |-> left.raised,
                        input |-> frame.call]
            /\ UNCHANGED logger_calls
       ELSE /\ last' = [op |-> frame.call.fn,
                        raised |-> Raised(outcome.raised, left.ret),
                        input |-> frame.call]
            /\ logger_calls' = Append(logger_calls, Handle(left.call, frame.id))

\* the wrapped call is over in a wrapper that does not log
Unwrapped(frame, outcome) ==
    /\ scopes' = SubSeq(scopes, 1, Len(scopes) - 1)
    /\ last' = [op |-> frame.call.fn, raised |-> outcome.raised, input |-> frame.call]
    /\ UNCHANGED logger_calls

\* RequestResponseLoggerMiddleware.__call__(request), up to the call of
\* self.get_response(request)
__call__ ==
    /\ input.fn = "__call__"
    /\ MayCall(input)
    /\ \E order \in Orderings(SelectedFor(input.request)) :
       \E data \in {req_data(input.request, order)} :
          IF ~config.ENABLE_LOGGING_MIDDLEWARE \/ _should_ignore(input.request)
          THEN Passed(input)
          ELSE IF data.raised # "" THEN Failed(input, data.raised)
          ELSE \E self \in {RequestLogContext(input.request, data.ret, None, None,
                                              "log_incoming_request_event",
                                              now * 1001000)} :
                  Entered(input, self, RequestLogContext__enter__(self, order))
    /\ UNCHANGED <<config, _mask_processors, _global_masks, _mask_names, input, now>>

\* self.get_response(request) returns or raises, and __call__ goes on from
\* there to its end; input.view is what the view did
get_response ==
    /\ InCall("__call__")
    /\ \E frame \in {scopes[Len(scopes)]} :
          IF ~frame.logs THEN Unwrapped(frame, input.view)
          ELSE \E order \in Orderings(SelectedFor(input.request)) :
                  Left(frame, input.view,
                       RequestLogContext__exit__(
                           Assigned(frame.self, input.view, input.request,
                                    getattr(input.request, "_request_notes", None)),
                           input.view.raised, now * 1001000, order))
    /\ UNCHANGED <<config, _mask_processors, _global_masks, _mask_names, input, now>>

\* logged_request(method, url, notes=notes), up to the call of
\* original_request_method(method, url)
logged_request ==
    /\ \E call \in {input} \cup ViewRequests :
        /\ call.fn = "logged_request"
        /\ MayCall(call)
        /\ IF ~config.ENABLE_OUTBOUND_REQUEST_LOGGING THEN Passed(call)
           ELSE \E self \in {RequestLogContext(None, None, call.method, call.url,
                                               "log_outgoing_request_event",
                                               now * 1001000)} :
                \E order \in Orderings(SelectedFor(None)) :
                    Entered(call, self, RequestLogContext__enter__(self, order))
    /\ UNCHANGED <<config, _mask_processors, _global_masks, _mask_names, input, now>>

\* original_request_method(method, url) returns or raises, and logged_request
\* goes on from there to its end; the call's sent is what the request did
original_request_method ==
    /\ InCall("logged_request")
    /\ \E frame \in {scopes[Len(scopes)]} :
          IF ~frame.logs THEN Unwrapped(frame, frame.call.sent)
          ELSE \E assigned \in {Assigned(frame.self, frame.call.sent,
                                         getattr(frame.call.sent, "response",
                                                 [request |-> None]).request,
                                         frame.call.notes)} :
               \E order \in Orderings(SelectedFor(assigned.request)) :
                  Left(frame, frame.call.sent,
                       RequestLogContext__exit__(assigned, frame.call.sent.raised,
                                                 now * 1001000, order))
    /\ UNCHANGED <<config, _mask_processors, _global_masks, _mask_names, input, now>>

\* logger.info("message") in a view, which logs at most once
ViewLog ==
    /\ InCall("__call__")
    /\ \A i \in DOMAIN logger_calls : logger_calls[i].scope # 0
    /\ logger_calls' =
           Append(logger_calls, Handle(LogCall(FString(<<"message">>), None, NoInfo), 0))
    /\ last' = [op |-> "log"]
    /\ UNCHANGED <<config, _mask_processors, _global_masks, _mask_names, input,
                   scopes, now>>

\* time passes while a wrapped call is in progress
Wait == scopes # <<>> /\ Tick

NextEvent ==
    \/ __call__
    \/ get_response
    \/ logged_request
    \/ original_request_method
    \/ ViewLog
    \/ Wait

SpecEvent == InitEvent /\ [][NextEvent]_vars

----------------------------------------------------------------------------
(* RequestLogContext scopes on generated requests and responses *)

InitLog ==
    /\ config \in {[_defaults EXCEPT !.ENABLE_SENSITIVE_PATHS_PROCESSOR = TRUE,
                                     !.LOG_RESPONSE_CONTENT = c] : c \in BOOLEAN}
    /\ \E reg \in RequestRegistries :
          /\ "Pat2" \in reg.globals
          /\ _mask_processors = reg.processors
          /\ _global_masks = reg.globals
    /\ _mask_names = <<>>
    /\ input = NoInput
    /\ last = [op |-> "import"]
    /\ scopes = <<>>
    /\ logger_calls = <<>>
    /\ now = 0

NextLog ==
    \/ EnterRequestLog
    \/ SetRequest
    \/ SetResponse
    \/ Tick
    \/ ExitRequestLog
    \/ PlainLog

SpecLog == InitLog /\ [][NextLog]_vars

----------------------------------------------------------------------------
(* Vocabulary of the properties: positions in a value, pattern matching *)

\* A position is a sequence of steps from the root: [k |-> key] into a dict,
\* [i |-> index] into a list or tuple.
IsKeyStep(step) == "k" \in DOMAIN step

RECURSIVE Positions(_)
Positions(v) ==
    {<<>>} \cup
    IF isdict(v)
    THEN UNION {{<<[k |-> key]>> \o p : p \in Positions(v.d[key])} : key \in DOMAIN v.d}
    ELSE IF islist(v) \/ istuple(v)
    THEN UNION {{<<[i |-> n]>> \o p : p \in Positions(v.l[n])} : n \in DOMAIN v.l}
    ELSE {}

RECURSIVE At(_, _)
At(v, pos) ==
    IF pos = <<>> THEN v
    ELSE IF IsKeyStep(Head(pos)) THEN At(v.d[Head(pos).k], Tail(pos))
    ELSE At(v.l[Head(pos).i], Tail(pos))

RECURSIVE Has(_, _)
Has(v, pos) ==
    IF pos = <<>> THEN TRUE
    ELSE IF IsKeyStep(Head(pos))
    THEN isdict(v) /\ Head(pos).k \in DOMAIN v.d /\ Has(v.d[Head(pos).k], Tail(pos))
    ELSE (islist(v) \/ istuple(v)) /\ Head(pos).i \in DOMAIN v.l
            /\ Has(v.l[Head(pos).i], Tail(pos))

\* the value with the subtree at pos replaced by w
RECURSIVE ReplaceAt(_, _, _)
ReplaceAt(v, pos, w) ==
    IF pos = <<>> THEN w
    ELSE IF IsKeyStep(Head(pos))
    THEN Dict([v.d EXCEPT ![Head(pos).k] = ReplaceAt(@, Tail(pos), w)])
    ELSE [v EXCEPT !.l[Head(pos).i] = ReplaceAt(@, Tail(pos), w)]

\* the keys on the way to a position: list levels are not counted
KeyPath(pos) ==
    LET ks == SelectSeq(pos, IsKeyStep) IN [j \in DOMAIN ks |-> ks[j].k]

EndsAtKey(pos) == pos # <<>> /\ IsKeyStep(pos[Len(pos)])
ThroughList(pos) == \E j \in DOMAIN pos : ~IsKeyStep(pos[j])
IsPrefix(p, q) == Len(p) <= Len(q) /\ SubSeq(q, 1, Len(p)) = p

\* The segments a pattern stands for: slashes at the ends dropped, and a
\* terminal "*" after at least one segment dropped.
PatternSegs(pattern) ==
    LET segs == split(strip(pattern))
    IN  IF Len(segs) >= 2 /\ segs[Len(segs)] = "*"
        THEN SubSeq(segs, 1, Len(segs) - 1) ELSE segs

SegsMatch(segs, keys) ==
    /\ Len(segs) = Len(keys)
    /\ \A j \in DOMAIN segs : segs[j] = "*" \/ segs[j] = keys[j]

EndsInStar(segs) == segs[Len(segs)] = "*"

\* some pattern matches exactly these keys
Matched(args, keys) ==
    \E j \in DOMAIN args : SegsMatch(PatternSegs(args[j]), keys)
\* ... and it ends in a literal segment / in a wildcard
LiteralEndAt(args, keys) ==
    \E j \in DOMAIN args :
        SegsMatch(PatternSegs(args[j]), keys) /\ ~EndsInStar(PatternSegs(args[j]))
StarEndAt(args, keys) ==
    \E j \in DOMAIN args :
        SegsMatch(PatternSegs(args[j]), keys) /\ EndsInStar(PatternSegs(args[j]))
\* some pattern matches these keys or keys above them
UnderMatch(args, keys) ==
    \E n \in 1..Len(keys) : Matched(args, SubSeq(keys, 1, n))
AboveMatched(args, keys) ==
    \E n \in 1..(Len(keys) - 1) : Matched(args, SubSeq(keys, 1, n))
\* the value at these keys is the one a terminal rule replaces
MaskedAt(args, keys) ==
    LiteralEndAt(args, keys) /\ ~StarEndAt(args, keys) /\ ~AboveMatched(args, keys)
\* a pattern ends in a wildcard that stands for the keys of the dict at keys
StarMasksAt(args, keys) ==
    \E j \in DOMAIN args :
        /\ Len(PatternSegs(args[j])) = Len(keys) + 1
        /\ EndsInStar(PatternSegs(args[j]))
        /\ SegsMatch(SubSeq(PatternSegs(args[j]), 1, Len(keys)), keys)
\* the dict at these keys is the one a terminal wildcard masks as a whole
MaskedWholeAt(args, keys) == StarMasksAt(args, keys) /\ ~UnderMatch(args, keys)

Masked == Str(MASK_STRING)
OneMasked == Dict(SetItem(EmptyDict, MASK_STRING, Masked))
KeysMasked(v) == Dict([k \in DOMAIN v.d |-> Masked])
DictMask(v) ==
    IF config.SHOW_NESTED_KEYS_IN_SENSITIVE_PATHS THEN KeysMasked(v) ELSE OneMasked

\* out is what the documentation of chain_mask describes for v, None included
RECURSIVE IsChainMask(_, _)
IsChainMask(out, v) ==
    IF isdict(v) THEN out = DictMask(v)
    ELSE IF islist(v)
    THEN islist(out) /\ Len(out.l) = Len(v.l)
            /\ \A n \in DOMAIN v.l : IsChainMask(out.l[n], v.l[n])
    ELSE IF v = None THEN out = None
    ELSE out = Masked

\* the same without the None case: every other value becomes the placeholder
RECURSIVE IsChainMaskNoNone(_, _)
IsChainMaskNoNone(out, v) ==
    IF isdict(v) THEN out = DictMask(v)
    ELSE IF islist(v)
    THEN islist(out) /\ Len(out.l) = Len(v.l)
            /\ \A n \in DOMAIN v.l : IsChainMaskNoNone(out.l[n], v.l[n])
    ELSE out = Masked

\* the rule sets of names applied one after the other to the dict at ref
RECURSIVE ProcessAll(_, _, _)
ProcessAll(order, heap, ref) ==
    IF order = <<>> THEN heap
    ELSE ProcessAll(Tail(order), process(_mask_processors[Head(order)], heap, ref), ref)

\* a dict no other reference leads into, after process(data)
ProcessedAlone(root_paths, data) == process(root_paths, Alone(data), CallerRef)[CallerRef]

\* what the caller's dict is after these rule sets were applied to it
SanitizedBy(order, heap) == Unfold(ProcessAll(order, heap, CallerRef), Ref(CallerRef))

Called == last.op = "sanitize_data"
Returned == Called /\ last.outcome = "return"
Processed == last.op = "process"

----------------------------------------------------------------------------
(* Properties of sanitize_data, checked under Spec *)

\* C1: sanitize_data leaves the caller's data deep-equal to its value before
\* the call, whatever rule sets are registered, global or in the context
\* stack, and what it returns is another object than the one it was given,
\* with no object in common with the caller's data.
C1_InputUnchanged ==
    Called =>
        /\ last.data_after = last.data
        /\ last.outcome = "return" =>
              /\ last.ret_ref # CallerRef
              /\ Reachable(last.heap_after, {last.ret_ref})
                    \cap Reachable(last.heap_after, {CallerRef}) = {}
              /\ \E order \in Orderings(last.applied) :
                    last.ret = SanitizedBy(order, last.heap)

C1_Witness ==
    /\ Returned
    /\ last.ret # last.data
    /\ last.data_after = last.data
    /\ last.mask_names # {}
    /\ _global_masks # {}
    /\ _mask_names # <<>>

\* C2: the rule sets sanitize_data applies are exactly those named by the
\* arguments, by the frames on the context stack or by the global set, and
\* the returned value is the input with exactly those rule sets applied.
C2_AppliedIsUnion ==
    LET union == last.mask_names \cup UNION Range(_mask_names) \cup _global_masks
    IN  /\ Called => last.applied \subseteq union
        /\ Returned =>
              /\ last.applied = union
              /\ \E order \in Orderings(union) :
                    last.ret = SanitizedBy(order, last.heap)

C2_Witness ==
    /\ Returned
    /\ config.ENABLE_SENSITIVE_PATHS_PROCESSOR
    /\ last.mask_names = {"Pat2"}
    /\ UNION Range(_mask_names) = {"Pat1"}
    /\ _global_masks = {"ALL"}
    /\ last.applied = {"ALL", "Pat1", "Pat2"}

\* C3: the switch ENABLE_SENSITIVE_PATHS_PROCESSOR is off by default, and
\* while it is off sanitize_data returns a copy equal to its input whichever
\* rule sets are selected.
C3_SwitchOffNoMasking ==
    /\ last.op = "import" => ~config.ENABLE_SENSITIVE_PATHS_PROCESSOR
    /\ (Returned /\ ~config.ENABLE_SENSITIVE_PATHS_PROCESSOR) =>
            last.ret = last.data

C3_Witness ==
    /\ Returned
    /\ ~config.ENABLE_SENSITIVE_PATHS_PROCESSOR
    /\ "ALL" \in last.mask_names
    /\ _global_masks # {}
    /\ _mask_names # <<>>
    /\ last.applied = Names
    /\ last.ret = last.data

\* C4: after import "ALL" is registered as the single top-level wildcard and
\* is not global; with the registry as import left it, sanitize_data applies
\* ALL only when it is named by an argument or by a context frame, so a call
\* with no names and an empty stack returns the data unmasked.
RegistryAsImported ==
    /\ DOMAIN _mask_processors = {"ALL"}
    /\ _mask_processors["ALL"] = SensitivePaths(AllArgs)
    /\ _global_masks = {}

C4_AllNotGlobal ==
    /\ last.op = "import" => RegistryAsImported
    /\ (Called /\ RegistryAsImported) =>
          /\ "ALL" \in last.applied =>
                "ALL" \in last.mask_names \cup UNION Range(_mask_names)
          /\ (last.mask_names = {} /\ _mask_names = <<>>) =>
                /\ last.outcome = "return"
                /\ last.applied = {}
                /\ last.ret = last.data

C4_Witness ==
    /\ Returned
    /\ RegistryAsImported
    /\ config.ENABLE_SENSITIVE_PATHS_PROCESSOR
    /\ last.mask_names = {}
    /\ _mask_names = <<>>
    /\ last.ret = last.data

----------------------------------------------------------------------------
(* Properties of SensitivePaths.process, checked under SpecProcess *)

IsLeaf(v) == ~(isdict(v) \/ islist(v) \/ istuple(v))

\* no object of the data given to the call is referred to from two places
Unshared == input.heap = Alone(input.data)

\* nothing at or below pos is matched by a pattern
Unmatched(args, data, pos) ==
    \A q \in Positions(data) : IsPrefix(pos, q) => ~UnderMatch(args, KeyPath(q))

\* C5: a key whose key path (list levels not counted) matches no pattern and
\* lies under no matched pattern is still there after process, holds a value
\* of the same kind, and a leaf there keeps its value; the documented rule set
\* masks only obj1/key1 and obj1/key2 of the documented dict. process masks
\* in place, so this fails where the object that holds the key is also under
\* a matched key path: {a: S, b: S} with S = {b: "s"} and the rule a/b.
C5_Example ==
    Dict([obj2 |-> Str("shown"), obj1 |-> Obj3("secret", "hidden", "shown")])
C5_ExampleMasked ==
    Dict([obj2 |-> Str("shown"),
          obj1 |-> Obj3(MASK_STRING, MASK_STRING, "shown")])

C5_UnlistedUntouched ==
    Processed =>
        /\ \A pos \in Positions(input.data) :
              ~UnderMatch(input.args, KeyPath(pos)) =>
                  /\ Has(last.data_after, pos)
                  /\ At(last.data_after, pos).t = At(input.data, pos).t
                  /\ IsLeaf(At(input.data, pos)) =>
                        At(last.data_after, pos) = At(input.data, pos)
        /\ (input.args = TestPathsArgs /\ input.data = C5_Example) =>
              last.data_after = C5_ExampleMasked

\* C5 on data that share no object: there the unlisted keys are untouched
C5_UnlistedUntouchedUnshared == Unshared => C5_UnlistedUntouched

C5_Witness ==
    /\ Processed
    /\ input.args = TestPathsArgs
    /\ input.data = C5_Example
    /\ last.data_after = C5_ExampleMasked

\* a pattern of args has "*" at segment n, followed by further segments, and
\* agrees with keys before n: keys pass the level where the wildcard applies
WildcardLevel(args, keys) ==
    \E j \in DOMAIN args :
        LET segs == PatternSegs(args[j]) IN
        \E n \in 1..(Len(segs) - 1) :
            /\ segs[n] = "*"
            /\ n <= Len(keys)
            /\ \A m \in 1..(n - 1) : segs[m] = "*" \/ segs[m] = keys[m]

\* a pattern of args would match keys if one of its "*" stood for two keys
TwoLevelMatch(args, keys) ==
    \E j \in DOMAIN args :
        LET segs == PatternSegs(args[j]) IN
        \E n \in 1..(Len(segs) - 1) :
            /\ segs[n] = "*"
            /\ Len(keys) = Len(segs) + 1
            /\ SegsMatch(segs, SubSeq(keys, 1, n) \o SubSeq(keys, n + 2, Len(keys)))

C6_WildcardMasked ==
    Dict([obj2 |-> Dict([key1 |-> Wild(MASK_STRING),
                         key3 |-> Dict([nested |-> Wild("shown")]),
                         nested |-> Dict([calm |-> Str(MASK_STRING),
                                          wild |-> Str(MASK_STRING)])])])

\* C6: "*" stands for any key at exactly one mapping level. Where a rule set
\* has a wildcard, the value at every key path that a pattern matches is
\* masked, literal patterns at the wildcard's level included; a value one
\* mapping level deeper than a wildcard match, matched by no pattern, is left
\* as it was. It is not where the dict that holds it is also met one level
\* higher: {a: {a: S}, b: S} with S = {a: None, b: {a: "s"}} and the rule */b.
C6_WildcardOneLevel ==
    Processed =>
        /\ \A pos \in Positions(input.data) :
              LET keys == KeyPath(pos) IN
              /\ (EndsAtKey(pos) /\ WildcardLevel(input.args, keys)
                    /\ MaskedAt(input.args, keys)) =>
                    /\ Has(last.data_after, pos)
                    /\ IsChainMask(At(last.data_after, pos), At(input.data, pos))
              /\ (EndsAtKey(pos) /\ TwoLevelMatch(input.args, keys)
                    /\ Unmatched(input.args, input.data, pos)) =>
                    /\ Has(last.data_after, pos)
                    /\ At(last.data_after, pos) = At(input.data, pos)
        /\ (input.args = TestPathsArgs /\ input.data = WildcardDoc) =>
              last.data_after = C6_WildcardMasked

\* C6 on data that share no object: the wildcard stands for one level
C6_WildcardOneLevelUnshared == Unshared => C6_WildcardOneLevel

C6_Witness ==
    /\ Processed
    /\ input.args = TestPathsArgs
    /\ input.data = WildcardDoc
    /\ last.data_after = C6_WildcardMasked

C7_Example ==
    Dict([obj2 |-> Str("shown"),
          obj1 |-> List(<<Obj3("secret", "hidden", "shown"),
                          List(<<Obj3("secret", "hidden", "shown")>>)>>)])
C7_ExampleMasked ==
    Dict([obj2 |-> Str("shown"),
          obj1 |-> List(<<Obj3(MASK_STRING, MASK_STRING, "shown"),
                          List(<<Obj3(MASK_STRING, MASK_STRING, "shown")>>)>>)])

\* C7: a list consumes no path segment. A list that no pattern has replaced
\* from above stays a list of the same length and each element comes out as
\* it would if it stood alone in the list's place, lists inside lists
\* included; a value reached through lists and matched by a terminal rule is
\* masked. An element is not handled on its own where the list is also under
\* another key: {a: L, b: L} with L = ["s", {a: "s"}] and the rule a/a.
C7_ListsTransparent ==
    Processed =>
        /\ \A pos \in Positions(input.data) :
              LET keys == KeyPath(pos) IN
              /\ (islist(At(input.data, pos)) /\ ~AboveMatched(input.args, keys)
                    /\ ~StarEndAt(input.args, keys)) =>
                    /\ Has(last.data_after, pos)
                    /\ islist(At(last.data_after, pos))
                    /\ Len(At(last.data_after, pos).l) = Len(At(input.data, pos).l)
                    /\ \A n \in DOMAIN At(input.data, pos).l :
                          At(last.data_after, pos).l[n] =
                              At(ProcessedAlone(last.root_paths,
                                                ReplaceAt(input.data, pos,
                                                          At(input.data, pos).l[n])), pos)
              /\ (ThroughList(pos) /\ EndsAtKey(pos) /\ MaskedAt(input.args, keys)) =>
                    /\ Has(last.data_after, pos)
                    /\ IsChainMask(At(last.data_after, pos), At(input.data, pos))
        /\ (input.args = TestPathsArgs /\ input.data = C7_Example) =>
              last.data_after = C7_ExampleMasked

\* C7 on data that share no object: each element as if it stood alone
C7_ListsTransparentUnshared == Unshared => C7_ListsTransparent

C7_Witness ==
    /\ Processed
    /\ input.args = TestPathsArgs
    /\ input.data = C7_Example
    /\ last.data_after = C7_ExampleMasked

\* C8: the ALL rule set is the single top-level wildcard; with masking enabled
\* it turns any dict into {placeholder: placeholder} when show-nested-keys is
\* off and, when it is on, into the dict's own top-level keys each mapped to
\* the placeholder string, whatever the values were.
C8_AllRule ==
    (Processed /\ input.args = AllArgs) =>
        /\ last.root_paths = _mask_processors["ALL"]
        /\ last.root_paths = Paths(SetItem(EmptyPaths.c, "*", True))
        /\ IF config.SHOW_NESTED_KEYS_IN_SENSITIVE_PATHS
           THEN last.data_after = KeysMasked(input.data)
           ELSE last.data_after = OneMasked

C8_Witness ==
    /\ Processed
    /\ input.args = AllArgs
    /\ config.SHOW_NESTED_KEYS_IN_SENSITIVE_PATHS
    /\ input.data = Dict([obj2 |-> Str("shown"),
                          list1 |-> List(<<Str("secret"), Str("hidden"),
                                           Str("shown")>>)])
    /\ last.data_after = Dict([obj2 |-> Masked, list1 |-> Masked])

\* C9: the value under a terminal rule is replaced by its chain mask. Under
\* a rule that ends in a key it is the value of that key: {placeholder:
\* placeholder} or its keys mapped to the placeholder for a dict, a list of
\* the same length with every element so replaced for a list, and the
\* placeholder string for every other value. Under a rule that ends in a
\* wildcard it is the dict whose keys the wildcard stands for, masked as a
\* dict is. The values are not so replaced where the data refer to one object
\* from two places: {a: L, b: L} with L = ["s", {a: "s"}] and the rules a/*/*
\* and b/a; and None is left None.
C9_EveryOtherValueMasked ==
    Processed =>
        \A pos \in Positions(input.data) :
            /\ (EndsAtKey(pos) /\ MaskedAt(input.args, KeyPath(pos))) =>
                  /\ Has(last.data_after, pos)
                  /\ IsChainMaskNoNone(At(last.data_after, pos), At(input.data, pos))
            /\ (isdict(At(input.data, pos))
                    /\ MaskedWholeAt(input.args, KeyPath(pos))) =>
                  /\ Has(last.data_after, pos)
                  /\ At(last.data_after, pos) = DictMask(At(input.data, pos))

\* C9 with None left None, alone or as a list element
C9_ChainMaskOrNone ==
    Processed =>
        \A pos \in Positions(input.data) :
            /\ (EndsAtKey(pos) /\ MaskedAt(input.args, KeyPath(pos))) =>
                  /\ Has(last.data_after, pos)
                  /\ IsChainMask(At(last.data_after, pos), At(input.data, pos))
            /\ (isdict(At(input.data, pos))
                    /\ MaskedWholeAt(input.args, KeyPath(pos))) =>
                  /\ Has(last.data_after, pos)
                  /\ At(last.data_after, pos) = DictMask(At(input.data, pos))

\* ... on data that share no object
C9_ChainMaskOrNoneUnshared == Unshared => C9_ChainMaskOrNone

C9_Witness ==
    /\ Processed
    /\ ~config.SHOW_NESTED_KEYS_IN_SENSITIVE_PATHS
    /\ input.args = << <<"a">> >>
    /\ input.data = Dict([a |-> List(<<None, Str("s"), Dict([a |-> None])>>)])
    /\ last.data_after = Dict([a |-> List(<<None, Masked, OneMasked>>)])

----------------------------------------------------------------------------
(* Properties of SensitivePaths.__init__, checked under SpecCompile *)

Constructed == last.op = "SensitivePaths"

\* C10: the compiled structure is the same for every order of the patterns,
\* and a pattern that extends another pattern of the set adds nothing to it:
\* {"a/a", "a"} compiles to {a: True} in both orders, and the three depths of
\* test_root_paths to {obj1: {nested: True}}.
C10_Deeper ==
    { Join(<<"obj1", "nested", "key1", "deeper">>),
      Join(<<"obj1", "nested", "key1">>), Join(<<"obj1", "nested">>) }
C10_DeeperCompiled ==
    Paths(SetItem(EmptyPaths.c, "obj1",
                  Paths(SetItem(EmptyPaths.c, "nested", True))))

C10_OrderIndependent ==
    Constructed =>
        /\ \A order \in Orderings(input.patterns) :
              SensitivePaths(order) = last.root_paths
        /\ \A p, q \in input.patterns :
              (p # q /\ IsPrefix(PatternSegs(p), PatternSegs(q))) =>
                  \A order \in Orderings(input.patterns \ {q}) :
                      SensitivePaths(order) = last.root_paths
        /\ input.patterns = {Join(<<"a", "a">>), <<"a">>} =>
              last.root_paths = Paths(SetItem(EmptyPaths.c, "a", True))
        /\ input.patterns = C10_Deeper => last.root_paths = C10_DeeperCompiled

C10_Witness ==
    /\ Constructed
    /\ input.patterns = C10_Deeper
    /\ last.args[1] = Join(<<"obj1", "nested", "key1", "deeper">>)
    /\ last.args[3] = Join(<<"obj1", "nested">>)
    /\ last.root_paths = C10_DeeperCompiled

----------------------------------------------------------------------------
(* Properties of pattern spelling, checked under SpecNormalise *)

Normalised == last.op = "normalise"

\* C11: a pattern p, "/" + p, p + "/" and p + "/*" compile to the same
\* structure, and giving p twice compiles to the same as giving it once.
\* The code elides one terminal "*" only: "a/*" compiles to {a: True} but
\* "a/*/*" to {a: {"*": True}}.
C11_SpellingsCompileAlike ==
    Normalised =>
        /\ last.leading = last.plain
        /\ last.trailing = last.plain
        /\ last.star = last.plain
        /\ last.twice = last.plain

----------------------------------------------------------------------------
(* Properties of the registry operations, checked under Spec *)

\* C12: remove_mask_processor(name) returns without error, leaves the name in
\* neither the registry nor the global set and every other entry as it was;
\* for a name that was never registered the registry and the global set are
\* unchanged.
C12_RemoveIsSafe ==
    [][ last'.op = "remove_mask_processor" =>
          LET name == last'.mask_name IN
          /\ last'.outcome = "return"
          /\ name \notin DOMAIN _mask_processors'
          /\ name \notin _global_masks'
          /\ DOMAIN _mask_processors' = DOMAIN _mask_processors \ {name}
          /\ \A k \in DOMAIN _mask_processors' :
                _mask_processors'[k] = _mask_processors[k]
          /\ _global_masks' = _global_masks \ {name}
          /\ (name \notin DOMAIN _mask_processors /\ name \notin _global_masks) =>
                /\ _mask_processors' = _mask_processors
                /\ _global_masks' = _global_masks
      ]_vars

\* "N/A" was never registered, and its removal left a registry with a global
\* name in it as it was
C12_Witness ==
    /\ last.op = "remove_mask_processor"
    /\ last.mask_name = "N/A"
    /\ last.outcome = "return"
    /\ "Pat1" \in _global_masks
    /\ "Pat1" \in DOMAIN _mask_processors

----------------------------------------------------------------------------
(* Properties of SensitivePathContext, checked under Spec *)

\* the names a caller asks for with SensitivePathContext(paths): the name
\* itself for a single name, the members for a collection of names
ScopeNames(scope) ==
    IF scope.paths.t = "str" THEN {scope.paths.s}
    ELSE {scope.paths.l[i] : i \in DOMAIN scope.paths.l}

OpenScopes == {scopes[i] : i \in DOMAIN scopes}

\* C13: at every point of a well-nested run the active-name set is the union
\* of the name sets of the scopes entered and not yet exited: inside "Pat1"
\* then "Pat2" it is {Pat1, Pat2}, after the inner exit {Pat1}, and inside
\* "Pat1" opened twice the name stays active when the inner scope exits.
C13_ActiveIsUnionOfOpen ==
    /\ get_mask_names = UNION {ScopeNames(sc) : sc \in OpenScopes}
    /\ Len(_mask_names) = Len(scopes)
    /\ \A i \in DOMAIN scopes : _mask_names[i] = ScopeNames(scopes[i])

\* the inner of two "Pat1" scopes has exited and Pat1 is still active
C13_Witness ==
    /\ last.op = "__exit__"
    /\ last.paths = Str("Pat1")
    /\ Len(scopes) = 1
    /\ scopes[1].paths = Str("Pat1")
    /\ scopes[1].stack_before = <<>>
    /\ get_mask_names = {"Pat1"}

\* C14: when a scope exits, by its body ending or by its body raising, the
\* context stack is what it was before the scope was entered, and an error
\* raised in the body goes on to the caller.
C14_ReleasedOnEveryExit ==
    [][ last'.op = "__exit__" =>
          /\ _mask_names' = scopes[Len(scopes)].stack_before
          /\ last'.raised = last'.exc_type
      ]_vars

\* a nested scope whose body raised has exited
C14_Witness ==
    /\ last.op = "__exit__"
    /\ last.paths = Str("Pat2")
    /\ last.exc_type = "ValueError"
    /\ last.raised = "ValueError"
    /\ Len(scopes) = 1
    /\ _mask_names = <<{"ALL", "Pat1"}>>

----------------------------------------------------------------------------
(* Properties of sanitize_request_data, checked under SpecRequest *)

\* the fields of a query string: the maximal runs of tokens without "&",
\* as pairs of first and last position (an empty field has last = first - 1)
QueryFields(q) ==
    { f \in (1..(Len(q) + 1)) \X (0..Len(q)) :
        /\ f[2] >= f[1] - 1
        /\ (f[1] = 1 \/ q[f[1] - 1] = "&")
        /\ (f[2] = Len(q) \/ q[f[2] + 1] = "&")
        /\ \A k \in f[1]..f[2] : q[k] # "&" }

\* strict parsing accepts the empty string and strings whose every field
\* holds an "="
ParsesAsQuery(q) ==
    q = <<>> \/ \A f \in QueryFields(q) : \E k \in f[1]..f[2] : q[k] = "="

RequestSanitized == last.op = "sanitize_request_data"

\* C15: for a string that does not parse as a query string the call returns
\* the string itself when PREFER_TEXT_FALLBACK_MASKING is off and the
\* placeholder when it is on; no rule set is applied, no error is raised and
\* the context stack is as before.
C15_UnparsedTextFallback ==
    [][ (last'.op = "sanitize_request_data" /\ isstr(input.data)
             /\ ~ParsesAsQuery(chars(input.data))) =>
          /\ last'.outcome = "return"
          /\ last'.ret = IF config.PREFER_TEXT_FALLBACK_MASKING
                         THEN Masked ELSE input.data
          /\ last'.applied = {}
          /\ _mask_names' = _mask_names
      ]_vars

\* "not a query string" was masked as a whole, with ALL asked for by the
\* request, Pat2 global and a scope open
C15_Witness ==
    /\ RequestSanitized
    /\ input.data = Text(<<"not", " ", "a", " ", "query", " ", "string">>)
    /\ input.request = WithMasks(Str("ALL"))
    /\ config.PREFER_TEXT_FALLBACK_MASKING
    /\ _global_masks = {"Pat2"}
    /\ _mask_names = <<{"Pat2"}>>
    /\ last.outcome = "return"
    /\ last.ret = Masked

\* C16: data that is neither a dict nor a str is returned as it is, unmasked,
\* without error and with the context stack as before, whatever is
\* registered, global, active or asked for by the request.
C16_AbsurdPassesThrough ==
    [][ (last'.op = "sanitize_request_data" /\ ~isdict(input.data)
             /\ ~isstr(input.data)) =>
          /\ last'.outcome = "return"
          /\ last'.ret = input.data
          /\ last'.applied = {}
          /\ _mask_names' = _mask_names
      ]_vars

\* a list holding a dict with a sensitive key came back unmasked although the
\* request asks for ALL and masking is enabled
C16_Witness ==
    /\ RequestSanitized
    /\ input.data = List(<<Payload>>)
    /\ input.request = WithMasks(Str("ALL"))
    /\ config.ENABLE_SENSITIVE_PATHS_PROCESSOR
    /\ config.PREFER_TEXT_FALLBACK_MASKING
    /\ _global_masks = {"Pat2"}
    /\ last.outcome = "return"
    /\ last.ret = List(<<Payload>>)

\* a parsed value list that holds the placeholder and nothing else
AllMasked(v) == v.l # <<>> /\ \A i \in DOMAIN v.l : v.l[i] = Masked

\* the call returned for a string that parses as a query string
QueryReturned ==
    /\ RequestSanitized
    /\ last.outcome = "return"
    /\ isstr(input.data)
    /\ ParsesAsQuery(chars(input.data))

\* C17 as claimed: the returned string parses as a query string with the key
\* set of the input, and every key has its values as in the input or the
\* placeholder. (Violated: a top-level "*" rule with show-nested-keys off
\* turns "key1=hide" into the single pair placeholder=placeholder.)
C17_RoundTrip ==
    QueryReturned =>
        LET in == parse_qs(chars(input.data)).data.d
            out == parse_qs(chars(last.ret))
        IN  /\ out.raised = ""
            /\ DOMAIN out.data.d = DOMAIN in
            /\ \A k \in DOMAIN in :
                  k \in DOMAIN out.data.d =>
                      (out.data.d[k] = in[k] \/ AllMasked(out.data.d[k]))

\* a rule set that was applied masks everything at the top level
StarApplied ==
    /\ config.ENABLE_SENSITIVE_PATHS_PROCESSOR
    /\ \E n \in last.applied :
          /\ "*" \in DOMAIN _mask_processors[n].c
          /\ _mask_processors[n].c["*"] = True

\* a rule set that was applied names the key k at the top level
KeyApplied(k) ==
    /\ config.ENABLE_SENSITIVE_PATHS_PROCESSOR
    /\ \E n \in last.applied :
          /\ k \in DOMAIN _mask_processors[n].c
          /\ _mask_processors[n].c[k] = True

\* what is handed to urlencode holds a lone surrogate: in a key, the keys
\* being those of the parsed query string unless the placeholder pair has
\* replaced them, or in a value of a key that no applied rule set masks
SurrogateKept(in) ==
    /\ ~(StarApplied /\ ~config.SHOW_NESTED_KEYS_IN_SENSITIVE_PATHS)
    /\ \E k \in DOMAIN in :
          \/ ~encodable(k, 1)
          \/ /\ ~StarApplied
             /\ ~KeyApplied(k)
             /\ \E i \in DOMAIN in[k].l : ~encodable(in[k].l[i].s, 1)

\* C17 (amended): the returned string parses as a query string. When an
\* applied rule set is a top-level "*" and show-nested-keys is off it is the
\* single pair placeholder=placeholder; otherwise it has the key set of the
\* input, a key named by an applied rule set (or any key under "*") carries
\* only the placeholder and every other key its values in number and order.
\* A call whose names are all registered returns, unless what is handed to
\* urlencode holds a lone surrogate, in a key that is still there or in a
\* value that no applied rule set masks: then, and only then, it raises
\* UnicodeEncodeError.
C17_RoundTripUnlessStar ==
    /\ QueryReturned =>
          LET in == parse_qs(chars(input.data)).data.d
              out == parse_qs(chars(last.ret))
          IN  /\ last.ret.t = "text"
              /\ out.raised = ""
              /\ IF StarApplied /\ ~config.SHOW_NESTED_KEYS_IN_SENSITIVE_PATHS
                 THEN out.data.d = SetItem(EmptyDict, MASK_STRING, List(<<Masked>>))
                 ELSE /\ DOMAIN out.data.d = DOMAIN in
                      /\ \A k \in DOMAIN in :
                            k \in DOMAIN out.data.d =>
                                IF StarApplied \/ KeyApplied(k)
                                THEN AllMasked(out.data.d[k])
                                ELSE out.data.d[k] = in[k]
    /\ ( /\ RequestSanitized
         /\ isstr(input.data)
         /\ ParsesAsQuery(chars(input.data))
         /\ last.outcome # "KeyError" ) =>
            /\ last.outcome \in {"return", "UnicodeEncodeError"}
            /\ last.outcome = "UnicodeEncodeError"
                    <=> SurrogateKept(parse_qs(chars(input.data)).data.d)

\* "key1=hide&key2=x=y" with Pat1 asked for: key1 masked and quoted, key2
\* with its value quoted
C17_Witness ==
    /\ QueryReturned
    /\ input.request = WithMasks(Str("Pat1"))
    /\ config.ENABLE_SENSITIVE_PATHS_PROCESSOR
    /\ _global_masks = {}
    /\ _mask_names = <<>>
    /\ input.data = Text(<<"key1", "=", "hide", "&", "key2", "=", "x", "=", "y">>)
    /\ last.ret = Text(<<"key1", "=", "%2A", "%2A", "%2A", "+", "masked", "+",
                         "%2A", "%2A", "%2A", "&", "key2", "=", "x", "%3D", "y">>)

----------------------------------------------------------------------------
(* C18: the two records of a RequestLogContext scope *)

\* the records the scope id emitted, as their places among the logger's calls
RecordsOf(id) == {i \in DOMAIN logger_calls : logger_calls[i].scope = id}
EdgeOf(i) == logger_calls[i].call.extra.edge

ScopeExited == last.op = "__exit__" /\ last.cls = "RequestLogContext"

\* C18: every RequestLogContext scope emits exactly two records, in this
\* order: a START record at entry with a null end time and response_time_ms =
\* -1, and an END record at exit with the end time; no END comes before its
\* START and no scope emits more than one of each.
C18_TwoRecords ==
    /\ \A i \in DOMAIN logger_calls :
          logger_calls[i].scope # 0 =>
              LET extra == logger_calls[i].call.extra
              IN  IF i = logger_calls[i].scope
                  THEN /\ extra.edge = "START"
                       /\ extra.end_time = None
                       /\ extra.response_time_ms = -1
                  ELSE /\ extra.edge = "END"
                       /\ i > logger_calls[i].scope
                       /\ extra.end_time # None
                       /\ Cardinality(RecordsOf(logger_calls[i].scope)) = 2
    /\ \A k \in DOMAIN scopes :
          scopes[k].cls = "RequestLogContext" => RecordsOf(scopes[k].id) = {scopes[k].id}
    /\ ScopeExited =>
          /\ Cardinality(RecordsOf(last.id)) = 2
          /\ \E i \in RecordsOf(last.id) : EdgeOf(i) = "END"

----------------------------------------------------------------------------
(* C19: a scope whose body raises *)

\* C19: when the work inside a RequestLogContext scope raises, the END record
\* is still emitted, carries the exception info and is logged at error
\* severity (info severity is used exactly when there is no exception info),
\* and the same exception is re-raised to the caller.
C19_RaisedIsLoggedAndReraised ==
    /\ (ScopeExited /\ last.exc_type # "") =>
          /\ last.raised = last.exc_type
          /\ \E i \in RecordsOf(last.id) :
                /\ EdgeOf(i) = "END"
                /\ logger_calls[i].call.level = "error"
                /\ logger_calls[i].call.exc_info = ExcInfo(last.exc_type)
    /\ \A i \in DOMAIN logger_calls :
          logger_calls[i].call.level = "info" <=> logger_calls[i].call.exc_info = None

----------------------------------------------------------------------------
(* C20: RequestEdgeEndFilter *)

\* the record of the i-th call and whether it is flagged smart
RecordOf(i) == makeRecord(logger_calls[i].call)
Smart(i) == "smart" \in DOMAIN RecordOf(i) /\ RecordOf(i).smart

\* C20: RequestEdgeEndFilter passes every record that is not flagged smart,
\* passes a smart record if and only if its edge is END, and drops every smart
\* START record; of the two records a scope emits, exactly the END record
\* passes.
C20_OnlyEndPasses ==
    /\ \A i \in DOMAIN logger_calls :
          /\ ~Smart(i) => logger_calls[i].passed
          /\ Smart(i) => (logger_calls[i].passed <=> RecordOf(i).edge = "END")
          /\ (Smart(i) /\ RecordOf(i).edge = "START") => ~logger_calls[i].passed
    /\ \A i, j \in DOMAIN logger_calls :
          (i < j /\ logger_calls[i].scope # 0
                 /\ logger_calls[i].scope = logger_calls[j].scope) =>
              /\ ~logger_calls[i].passed
              /\ logger_calls[j].passed

\* A scope emitted its two records, the START dropped and the END passed, next
\* to a record with smart = False and edge START, which passed.
C20_Witness ==
    /\ \E i, j \in DOMAIN logger_calls :
          /\ i < j
          /\ logger_calls[i].scope # 0
          /\ logger_calls[i].scope = logger_calls[j].scope
          /\ EdgeOf(i) = "START" /\ ~logger_calls[i].passed
          /\ EdgeOf(j) = "END" /\ logger_calls[j].passed
    /\ \E i \in DOMAIN logger_calls :
          /\ logger_calls[i].scope = 0
          /\ logger_calls[i].call.extra = [smart |-> FALSE, edge |-> "START"]
          /\ logger_calls[i].passed

----------------------------------------------------------------------------
(* Properties of the registry across registrations, checked under Spec *)

\* C27: after any sequence of add_mask_processor and remove_mask_processor
\* calls every name of the global set is a key of the registry, so a
\* sanitize_data call whose arguments and context frames name registered
\* rule sets only never fails on a lookup.
C27_GlobalsAreRegistered ==
    /\ _global_masks \subseteq DOMAIN _mask_processors
    /\ (Called /\ (last.mask_names \cup UNION Range(_mask_names))
                      \subseteq DOMAIN _mask_processors) => Returned

\* a global name was applied by a call that named nothing, in a registry
\* another global name (ALL) has been removed from
C27_Witness ==
    /\ Returned
    /\ last.mask_names = {}
    /\ _mask_names = <<>>
    /\ "ALL" \notin DOMAIN _mask_processors
    /\ _global_masks = {"Pat1", "Pat2"}
    /\ last.applied = {"Pat1", "Pat2"}

\* C30: registering a name again with is_global False replaces its rule set
\* and leaves it in the global set; a name leaves the global set only by
\* remove_mask_processor of that name; every returning sanitize_data call
\* applies the rule set now registered for each global name.
C30_GlobalIsSticky ==
    [][ /\ ( /\ last'.op = "add_mask_processor"
             /\ ~last'.is_global
             /\ last'.mask_name \in _global_masks )
          => /\ last'.mask_name \in _global_masks'
             /\ _mask_processors'[last'.mask_name] = last'.processor
        /\ \A name \in _global_masks \ _global_masks' :
             /\ last'.op = "remove_mask_processor"
             /\ last'.mask_name = name
        /\ ( /\ last'.op = "sanitize_data"
             /\ last'.outcome = "return" )
          => /\ _global_masks \subseteq last'.applied
             /\ \E order \in Orderings(last'.applied) :
                   last'.ret = SanitizedBy(order, last'.heap)
      ]_vars

\* Pat1, global with one rule set, has just been registered again without
\* is_global and with another rule set
C30_Witness ==
    /\ last.op = "add_mask_processor"
    /\ last.mask_name = "Pat1"
    /\ ~last.is_global
    /\ last.processor = SensitivePaths(TestPathsArgs)
    /\ "Pat1" \in _global_masks
    /\ _mask_processors["Pat1"] = last.processor

----------------------------------------------------------------------------
(* Properties of the names a request carries, checked under SpecRequest *)

\* the names request._apply_mask_processors asks for
RequestNames(request) == Frame(getattr(request, "_apply_mask_processors", List(<<>>)))

\* C25: the names a request carries in _apply_mask_processors are active for
\* one sanitize_request_data call only: the call applies them together with
\* the context and the global names, and whether it returns or raises, the
\* context stack after the call is the stack before it.
C25_RequestNamesForOneCall ==
    [][ last'.op = "sanitize_request_data" =>
          /\ _mask_names' = _mask_names
          /\ (isdict(input.data) /\ last'.outcome = "return") =>
                /\ last'.applied = RequestNames(input.request)
                                      \cup UNION Range(_mask_names) \cup _global_masks
                /\ \E order \in Orderings(last'.applied) :
                      last'.ret = SanitizedBy(order, Alone(input.data))
          /\ (isdict(input.data) /\ last'.outcome # "return") =>
                /\ last'.outcome = "KeyError"
                /\ ~(RequestNames(input.request) \subseteq DOMAIN _mask_processors)
      ]_vars

\* the request asked for Pat1 inside a scope of Pat2: both were applied to the
\* payload and the stack holds the caller's frame only
C25_Witness ==
    /\ RequestSanitized
    /\ input.request = WithMasks(Str("Pat1"))
    /\ input.data = Payload
    /\ config.ENABLE_SENSITIVE_PATHS_PROCESSOR
    /\ _global_masks = {}
    /\ _mask_names = <<{"Pat2"}>>
    /\ last.outcome = "return"
    /\ last.applied = {"Pat1", "Pat2"}
    /\ last.ret = Dict([key1 |-> Masked, key2 |-> Masked, key3 |-> Str("value3")])

----------------------------------------------------------------------------
(* Properties of the lookup of unregistered names, checked under Spec *)

\* the call on last' named, by argument or by an open frame, a rule set that
\* is not registered
UnknownNamed(explicit) ==
    ~((explicit \cup UNION Range(_mask_names)) \subseteq DOMAIN _mask_processors)

\* C28: sanitize_data does not skip a name that is not registered: when an
\* argument or an open frame names one the call raises KeyError and returns
\* nothing, the caller's data are as before, and a sanitize_request_data call
\* that meets the error has popped the frame it pushed.
C28_UnknownNameRaises ==
    [][ /\ (last'.op = "sanitize_data" /\ UnknownNamed(last'.mask_names)) =>
              /\ last'.outcome = "KeyError"
              /\ "ret" \notin DOMAIN last'
              /\ last'.data_after = last'.data
        /\ ( /\ last'.op = "sanitize_request_data"
             /\ UnknownNamed(RequestNames(last'.request)) ) =>
              /\ last'.outcome = "KeyError"
              /\ "ret" \notin DOMAIN last'
              /\ _mask_names' = _mask_names
      ]_vars

\* Pat1 was unregistered while a scope that names it is open, and a
\* sanitize_request_data call inside the scope failed and left the stack as
\* it was
C28_Witness ==
    /\ last.op = "sanitize_request_data"
    /\ last.request = Fake
    /\ last.outcome = "KeyError"
    /\ _mask_names = <<{"Pat1"}>>
    /\ "Pat1" \notin DOMAIN _mask_processors
    /\ Len(scopes) = 1

----------------------------------------------------------------------------
(* Properties of rule sets applied one after the other, checked under      *)
(* SpecChain                                                               *)

\* C29: with masking enabled the result of sanitize_data is the same in
\* every iteration order of the selected rule sets (R1 then R2 equals R2 then
\* R1), applying the selected rule sets to the result again changes nothing,
\* and a rule set selected under two names gives what one application gives.
\* The order shows where the data share an object: {a: L, b: L} with
\* L = ["s", {a: "s"}], R1 = a/a and R2 = a leave b's a masked when R1 runs
\* first and unmasked when R2 does.
C29_OrderAndRepeatDoNotMatter ==
    Returned =>
        /\ \A order \in Orderings(last.applied) :
              /\ last.ret = SanitizedBy(order, last.heap)
              /\ Unfold(ProcessAll(order, last.heap_after, last.ret_ref),
                        Ref(last.ret_ref)) = last.ret
        /\ _mask_processors["Pat1"] = _mask_processors["Pat2"] =>
              last.ret = SanitizedBy(<<"Pat1">>, last.heap)

\* C29 on data that share no object: order and repetition do not matter
C29_OrderAndRepeatDoNotMatterUnshared == Unshared => C29_OrderAndRepeatDoNotMatter

\* a rule set that masks a whole subtree met one that masks inside it, on
\* data that hold the subtree: the inner key is gone in either order
C29_Witness ==
    /\ Returned
    /\ ~config.SHOW_NESTED_KEYS_IN_SENSITIVE_PATHS
    /\ _mask_processors["Pat1"] = SensitivePaths(<< <<"a">> >>)
    /\ _mask_processors["Pat2"] = SensitivePaths(<< Join(<<"a", "b">>) >>)
    /\ last.data = Dict([a |-> Dict([b |-> Str("s")]), b |-> Str("s")])
    /\ last.ret = Dict([a |-> DictMask(last.data.d["a"]), b |-> Str("s")])
    /\ last.ret # SanitizedBy(<<"Pat2">>, last.heap)

----------------------------------------------------------------------------
(* Properties of the context stack under two callers, checked under        *)
(* SpecThreads                                                             *)

\* the names caller c pushed in the scopes it is inside
PushedBy(c) == UNION {Frame(scopes[c][i].paths) : i \in DOMAIN scopes[c]}

\* the number of scopes the callers are inside
RECURSIVE OpenCount(_)
OpenCount(S) ==
    IF S = {} THEN 0
    ELSE LET c == CHOOSE x \in S : TRUE
         IN  Len(scopes[c]) + OpenCount(S \ {c})

\* C24: the context stack is one list for all callers: it holds one frame per
\* scope any caller is inside, whoever pushed it, and get_mask_names gives a
\* caller the names of all frames on the list, not those of its own scopes.
C24_OneStackForAllCallers ==
    /\ Len(_mask_names) = OpenCount(Callers)
    /\ last.op = "get_mask_names" => last.ret = UNION Range(_mask_names)

\* caller t2 is inside its scope of Pat2 and the active-name set it reads
\* lacks Pat2, which it pushed, and holds Pat1, which only t1 pushed: the exit
\* of t1 popped the frame of t2
C24_Witness ==
    /\ last.op = "get_mask_names"
    /\ last.caller = "t2"
    /\ Len(scopes["t2"]) = 1
    /\ PushedBy("t2") = {"Pat2"}
    /\ scopes["t1"] = <<>>
    /\ "Pat2" \notin last.ret
    /\ "Pat1" \in last.ret

----------------------------------------------------------------------------
(* Properties of JsonFormatter.format, checked under SpecFormat *)

FormatReturned == last.op = "format"

\* v is a str that ends with " **TRUNCATED**"
EndsTruncated(v) ==
    /\ v # None
    /\ v.t = "text"
    /\ Len(v.q) >= Len(TRUNCATED)
    /\ SubSeq(v.q, Len(v.q) - Len(TRUNCATED) + 1, Len(v.q)) = TRUNCATED

\* log_data as the call of format that returned built it, before the limit
\* was applied
Built == LogData(last.self, AfterFormatter(last.record), Formatter_format(last.record))

\* the log_data of the call has a response with data to truncate
HasResponseData ==
    /\ "response" \in DOMAIN Built
    /\ Built.response # None
    /\ "data" \in DOMAIN Built.response.d

\* the serialized record was longer than the limit
Exceeded ==
    /\ config.MAX_JSON_DATA_TO_LOG # 0
    /\ last.resp_len > config.MAX_JSON_DATA_TO_LOG

Flagged == dict_get(last.log_data, "max_data_exceeded", None) = True

\* C22 as stated: with a max size below the margin and a serialized record
\* longer than the max, the output carries max_data_exceeded and its response
\* data end with the truncation marker; with a max size of 0 the output is the
\* record's data without the flag.
C22_SmallMaxTruncates ==
    (FormatReturned /\ HasResponseData) =>
        /\ (Exceeded /\ config.MAX_JSON_DATA_TO_LOG < truncate_margin) =>
              /\ Flagged
              /\ EndsTruncated(last.log_data.response.d.data)
        /\ config.MAX_JSON_DATA_TO_LOG = 0 => last.log_data = Built

\* C22, amended: with a max size below the margin and a serialized record
\* longer than the max, the output carries max_data_exceeded and its response
\* data are the ones the record held at the call, with no marker appended; the
\* call appends the marker only for a max size above the margin; with a max
\* size of 0 the output is the record's data without the flag.
C22_SmallMaxOnlyFlags ==
    (FormatReturned /\ HasResponseData) =>
        /\ (Exceeded /\ config.MAX_JSON_DATA_TO_LOG < truncate_margin) =>
              /\ Flagged
              /\ last.log_data.response = Built.response
        /\ last.log_data.response # Built.response =>
              /\ config.MAX_JSON_DATA_TO_LOG > truncate_margin
              /\ EndsTruncated(last.log_data.response.d.data)
        /\ config.MAX_JSON_DATA_TO_LOG = 0 => last.log_data = Built

\* the record of test_format_limit under a max size of 5: flagged, and every
\* one of the 500 characters of its response data is there
C22_Witness ==
    /\ FormatReturned
    /\ config.MAX_JSON_DATA_TO_LOG = 5
    /\ last.record.msg = long_msg
    /\ Flagged
    /\ last.log_data.response.d.data = long_msg

\* the truncation rule for a max size M: up to the margin the response is the
\* one the record held at the call; above it the data are cut to the first
\* M - 50 characters of their string form and the marker, when that string is
\* longer than M - 50
MarginRule(M) ==
    LET response_data == str(Built.response.d.data)
    IN  IF M > 50 /\ Len(response_data) > M - 50
        THEN /\ Flagged
             /\ last.log_data.response.d.data =
                   Text(SubSeq(response_data, 1, M - 50) \o TRUNCATED)
             /\ \A k \in DOMAIN Built.response.d \ {"data"} :
                   last.log_data.response.d[k] = Built.response.d[k]
        ELSE last.log_data.response = Built.response

\* C23 as stated: for a max size M with 0 < M <= 50 and a serialized record
\* longer than M the flag is set and the response data are not truncated; for
\* M > 50 the response data are truncated exactly when their string form is
\* longer than M - 50, and are then its first M - 50 characters followed by
\* " **TRUNCATED**".
C23_TruncationMargin ==
    (FormatReturned /\ HasResponseData) =>
        /\ (Exceeded /\ config.MAX_JSON_DATA_TO_LOG <= 50) => Flagged
        /\ (Exceeded \/ config.MAX_JSON_DATA_TO_LOG > 50) =>
              MarginRule(config.MAX_JSON_DATA_TO_LOG)

\* C23, amended: for a serialized record longer than the max size M: the flag
\* is set; for 0 < M <= 50 the response data are not truncated; for M > 50
\* they are truncated exactly when their string form is longer than M - 50,
\* and are then its first M - 50 characters followed by " **TRUNCATED**". A
\* record no longer than M is returned as it is.
C23_TruncationWhenExceeded ==
    (FormatReturned /\ HasResponseData) =>
        IF Exceeded
        THEN Flagged /\ MarginRule(config.MAX_JSON_DATA_TO_LOG)
        ELSE last.log_data = Built

\* the record of test_format_limit under a max size of 60: the response data
\* are the first 10 characters of long_msg and the marker
C23_Witness ==
    /\ FormatReturned
    /\ config.MAX_JSON_DATA_TO_LOG = 60
    /\ last.record.msg = long_msg
    /\ Flagged
    /\ last.log_data.response.d.data =
          Text(<<"T", "E", "S", "T", " ", "T", "E", "S", "T", " ">> \o TRUNCATED)

----------------------------------------------------------------------------
(* C21: the response part of the END record of an incoming request *)

\* the END records the middleware emitted for the request it was called with
IncomingEnds ==
    {i \in DOMAIN logger_calls :
        /\ logger_calls[i].scope # 0
        /\ logger_calls[i].call.extra.direction = "INCOMING"
        /\ logger_calls[i].call.extra.edge = "END"}

\* the response the view returned: whether it opts out, whether it is flagged
\* JSON, and the document its content holds
OptedOut(r) == "_log_data" \in DOMAIN r /\ r._log_data = FALSE
FlaggedJson(r) ==
    /\ "headers" \in DOMAIN r
    /\ "Content-Type" \in DOMAIN r.headers
    /\ r.headers["Content-Type"] = "application/json"
DocumentOf(r) == json_loads(r.content).value

\* the document as it is to be logged for a request: a dict has key1 masked
\* when the request names Pat1 (key2, which Pat2 masks, is in no document)
MaskedFor(req, doc) ==
    IF doc.t = "dict" /\ "_apply_mask_processors" \in DOMAIN req
    THEN Dict([k \in DOMAIN doc.d |-> IF k = "key1" THEN Str(MASK_STRING) ELSE doc.d[k]])
    ELSE doc

\* what C21 says of the response part info of an END record, for the request
\* req and the response r
ResponsePartOk(info, req, r) ==
    /\ "status_code" \in DOMAIN info
    /\ info.status_code = r.status_code
    /\ OptedOut(r) =>
          /\ "data" \in DOMAIN info
          /\ info.data = Dict([NOT_LOGGED |-> Str("_log_data == False")])
    /\ (~OptedOut(r) /\ config.LOG_RESPONSE_CONTENT /\ FlaggedJson(r)) =>
          /\ "data" \in DOMAIN info
          /\ info.data = MaskedFor(req, DocumentOf(r))
    /\ (~OptedOut(r) /\ ~(config.LOG_RESPONSE_CONTENT /\ FlaggedJson(r))) =>
          "data" \notin DOMAIN info

\* C21: in the END record of an incoming request that got a response, the
\* status code is recorded; the response body is attached, sanitized, if and
\* only if LOG_RESPONSE_CONTENT is on, the response is flagged JSON and it is
\* not opted out; a response with _log_data = False gets the sentinel
\* {"NOT_LOGGED": "_log_data == False"} whatever LOG_RESPONSE_CONTENT is; in
\* every other case the record has no data field.
C21_ResponseData ==
    (last.op = "__call__" /\ last.input.view.raised = "") =>
        \A i \in IncomingEnds :
            ResponsePartOk(logger_calls[i].call.extra.response, last.input.request,
                           last.input.view.response)

\* The middleware logged a JSON response with LOG_RESPONSE_CONTENT on for a
\* request that names Pat1: the END record carries the status code and the
\* body with key1 masked.
C21_Witness ==
    /\ last.op = "__call__" /\ last.input.view.raised = ""
    /\ config.LOG_RESPONSE_CONTENT
    /\ FlaggedJson(last.input.view.response)
    /\ ~OptedOut(last.input.view.response)
    /\ "_apply_mask_processors" \in DOMAIN last.input.request
    /\ \E i \in IncomingEnds :
          /\ logger_calls[i].call.extra.response.status_code = 200
          /\ logger_calls[i].call.extra.response.data
                = Dict([key1 |-> Str(MASK_STRING)])

----------------------------------------------------------------------------
(* C26: decode failures while an event is assembled *)

\* what the wrapped call did: the view of the middleware, or the request sent
Wrapper == last.op \in {"__call__", "logged_request"}
Inner == IF last.input.fn = "__call__" THEN last.input.view ELSE last.input.sent

\* the wrapper logs: logging is enabled and the request is not blocklisted
Logs ==
    IF last.input.fn = "__call__"
    THEN config.ENABLE_LOGGING_MIDDLEWARE /\ ~_should_ignore(last.input.request)
    ELSE config.ENABLE_OUTBOUND_REQUEST_LOGGING

\* C26: a JSON or body decode failure during event assembly is never
\* propagated to the caller: whatever the outgoing request body, the outgoing
\* response text, the incoming request body and the incoming response content
\* are, the wrapper raises nothing but what the wrapped call raised, and the
\* END record is still emitted: it is the last record logged.
C26_DecodeFailuresRecovered ==
    (Wrapper /\ Logs) =>
        /\ last.raised = Inner.raised
        /\ logger_calls # <<>>
        /\ logger_calls[Len(logger_calls)].scope # 0
        /\ logger_calls[Len(logger_calls)].call.extra.edge = "END"

====
